---- MODULE Spec2Model ----
(***************************************************************************)
(* Model of VROOM's JSON ingestion (src/src/utils/input_parser.cpp) and of *)
(* the scaling helpers of src/src/structures/typedefs.h.                   *)
(*                                                                         *)
(* A JSON value is a record [t, n, s, a, m]: t is the rapidjson type tag,  *)
(* n the number, s the string, a the array elements and m the object       *)
(* members in document order.  rapidjson tags a number with the integer    *)
(* types that hold it, and IsUint() and IsUint64() read the tag: "uint" is *)
(* a number of 0..2^32-1 with value n, "uint64" the number 2^32 + n of     *)
(* 2^32..2^64-1, "number" any other number (negative, fractional or        *)
(* larger), n being the value GetDouble() returns.                         *)
(*                                                                         *)
(* Every parsing helper returns [errs, val]: errs is the set of exception  *)
(* kinds the call can end with (empty when it returns normally, more than  *)
(* one element when the C++ leaves the outcome open), val the value it     *)
(* returns when errs is empty.                                             *)
(*                                                                         *)
(* Three specifications share the variables: Spec runs parse on each of    *)
(* the explored documents; ScalingSpec takes user values of the uint32_t   *)
(* range through the scaling functions, the cost of a travel and a sum of  *)
(* costs; SolveSpec follows parse with the construction of a solution and  *)
(* the moves of the local search operators.                                *)
(***************************************************************************)
EXTENDS Integers, Sequences, FiniteSets, TLC

(***************************************************************************)
(* Bounds of the explored input documents.                                 *)
(***************************************************************************)
\* Largest length of an amount array in an input document.
MaxDim == 2
\* Largest number of entries of a time_windows array.
MaxTws == 2
\* Largest number of entries of a breaks array.
MaxBreaks == 2
\* Largest number of rows of a custom matrix.
MaxN == 2

(***************************************************************************)
(* typedefs.h                                                              *)
(***************************************************************************)
UINT16_MOD == 2^16
DEFAULT_PROFILE == "car"
DURATION_FACTOR == 100
DISTANCE_FACTOR == 360
COST_FACTOR == 3600
DEFAULT_COST_PER_HOUR == 3600
DEFAULT_COST_PER_KM == 0

(***************************************************************************)
(* 64-bit arithmetic.  UserDuration and UserCost are uint32_t, Duration,   *)
(* Distance and Cost are int64_t.  Their values exceed the integers of the *)
(* model checker, so a non-negative integer is kept as the sequence of its *)
(* bytes, least significant first, twelve bytes long: the operators below  *)
(* compute the exact sum, product and quotient, which is the value of the  *)
(* C++ expression as long as it is in the range of its type (InInt64);     *)
(* outside of it the signed C++ operation is undefined.                    *)
(***************************************************************************)
Limbs == 1..12
WideZero == [k \in Limbs |-> 0]

\* The wide form of a small integer (below 2^31), and back.
Wide(n) == [k \in Limbs |-> IF k <= 4 THEN (n \div 256^(k - 1)) % 256 ELSE 0]
Value(x) == x[1] + 256 * x[2] + 65536 * x[3] + 16777216 * x[4]

\* The 32-bit value hi * 2^16 + lo.
U32(hi, lo) ==
  [k \in Limbs |-> CASE k = 1 -> lo % 256
                     [] k = 2 -> lo \div 256
                     [] k = 3 -> hi % 256
                     [] k = 4 -> hi \div 256
                     [] OTHER -> 0]

RECURSIVE AddFrom(_, _, _, _)
AddFrom(x, y, k, carry) ==
  IF k > 12 THEN <<>>
  ELSE <<(x[k] + y[k] + carry) % 256>>
         \o AddFrom(x, y, k + 1, (x[k] + y[k] + carry) \div 256)
WideAdd(x, y) == AddFrom(x, y, 1, 0)

\* x times the byte b.
RECURSIVE MulByteFrom(_, _, _, _)
MulByteFrom(x, b, k, carry) ==
  IF k > 12 THEN <<>>
  ELSE <<(x[k] * b + carry) % 256>>
         \o MulByteFrom(x, b, k + 1, (x[k] * b + carry) \div 256)

\* x times 256.
ShiftByte(x) == [k \in Limbs |-> IF k = 1 THEN 0 ELSE x[k - 1]]

RECURSIVE MulFrom(_, _, _)
MulFrom(x, y, k) ==
  IF k > 12 THEN WideZero
  ELSE WideAdd(MulByteFrom(x, y[k], 1, 0), ShiftByte(MulFrom(x, y, k + 1)))
WideMul(x, y) == MulFrom(x, y, 1)

\* The quotient of x by the small integer c (0 < c < 2^23), rounded down as
\* the C++ division of non-negative integers does.
RECURSIVE DivFrom(_, _, _, _)
DivFrom(x, c, k, rem) ==
  IF k = 0 THEN <<>>
  ELSE DivFrom(x, c, k - 1, (rem * 256 + x[k]) % c)
         \o <<(rem * 256 + x[k]) \div c>>
WideDiv(x, c) == DivFrom(x, c, 12, 0)

RECURSIVE LeqFrom(_, _, _)
LeqFrom(x, y, k) ==
  IF k = 0 THEN TRUE
  ELSE IF x[k] # y[k] THEN x[k] < y[k]
  ELSE LeqFrom(x, y, k - 1)
WideLeq(x, y) == LeqFrom(x, y, 12)

\* The range of the non-negative half of int64_t, and the conversion
\* static_cast<uint32_t>, which keeps the low 32 bits.
InInt64(x) == x[8] < 128 /\ \A k \in 9..12 : x[k] = 0
ToUint32(x) == [k \in Limbs |-> IF k <= 4 THEN x[k] ELSE 0]

\* std::numeric_limits<uint32_t>::max().
UINT32_MAX == U32(65535, 65535)

\* Setting max value would cause trouble with further additions: the
\* product and the quotient are computed in uint32_t.
\* INFINITE_USER_COST written 3 * max / 4: the product wraps in uint32_t.
INFINITE_USER_COST_product_first ==
  WideDiv(ToUint32(WideMul(Wide(3), UINT32_MAX)), 4)

INFINITE_USER_COST == ToUint32(WideMul(Wide(3), WideDiv(UINT32_MAX, 4)))

\* d is a wide UserDuration, the result a wide Duration.
scale_from_user_duration(d) == WideMul(Wide(DURATION_FACTOR), d)

\* assert(d <= scale_from_user_duration(max)) and the value returned.
scale_to_user_duration(d) ==
  [assertion |-> WideLeq(d, scale_from_user_duration(UINT32_MAX)),
   val |-> ToUint32(WideDiv(d, DURATION_FACTOR))]

scale_from_user_cost(c) ==
  WideMul(WideMul(Wide(DURATION_FACTOR), Wide(COST_FACTOR)), c)

\* scale_to_user_cost dividing by COST_FACTOR alone.
scale_to_user_cost_by_cost_factor(c) ==
  [assertion |-> WideLeq(c, scale_from_user_cost(UINT32_MAX)),
   val |-> ToUint32(WideDiv(c, COST_FACTOR))]

scale_to_user_cost(c) ==
  [assertion |-> WideLeq(c, scale_from_user_cost(UINT32_MAX)),
   val |-> ToUint32(WideDiv(c, DURATION_FACTOR * COST_FACTOR))]

\* Index is uint16_t: storing a wider unsigned value keeps its low 16 bits.
ToIndex(x) == x % UINT16_MOD

(***************************************************************************)
(* JSON values (rapidjson::Value).                                         *)
(***************************************************************************)
JNull == [t |-> "null", n |-> 0, s |-> "", a |-> <<>>, m |-> <<>>]
JNum(x) == [t |-> IF x >= 0 THEN "uint" ELSE "number", n |-> x, s |-> "",
            a |-> <<>>, m |-> <<>>]
JBig(x) == [t |-> "uint64", n |-> x, s |-> "", a |-> <<>>, m |-> <<>>]
JStr(x) == [t |-> "str", n |-> 0, s |-> x, a |-> <<>>, m |-> <<>>]
JArr(xs) == [t |-> "arr", n |-> 0, s |-> "", a |-> xs, m |-> <<>>]
JObj(ms) == [t |-> "obj", n |-> 0, s |-> "", a |-> <<>>, m |-> ms]
Mem(k, v) == [name |-> k, value |-> v]

IsObject(v) == v.t = "obj"
IsArray(v) == v.t = "arr"
IsString(v) == v.t = "str"
IsNumber(v) == v.t \in {"uint", "uint64", "number"}
IsUint(v) == v.t = "uint"
IsUint64(v) == v.t \in {"uint", "uint64"}
\* A uint64 as the pair of its bits above and below 2^32.
GetUint64(v) == [hi |-> IF v.t = "uint64" THEN 1 ELSE 0, lo |-> v.n]
Size(v) == Len(v.a)
HasMember(o, key) == \E i \in 1..Len(o.m) : o.m[i].name = key
\* operator[](key) of an object that has the member: the first match.
Get(o, key) ==
  LET i == CHOOSE i \in 1..Len(o.m) :
             /\ o.m[i].name = key
             /\ \A j \in 1..(i - 1) : o.m[j].name # key
  IN o.m[i].value

Ok(v) == [errs |-> {}, val |-> v]
Throw(kind) == [errs |-> {kind}, val |-> <<>>]
Failed(r) == r.errs # {}
\* Over a sequence of results, in the order they are computed.
AnyFailed(rs) == \E k \in DOMAIN rs : Failed(rs[k])
FirstFailure(rs) ==
  rs[CHOOSE k \in DOMAIN rs :
       Failed(rs[k]) /\ \A j \in 1..(k - 1) : ~Failed(rs[j])]
Vals(rs) == [k \in DOMAIN rs |-> rs[k].val]
InputException == "InputException"
RuntimeError == "std::runtime_error"
\* An assertion of rapidjson failing (a read of a member that is absent or of
\* another type): the process aborts in a build with assertions, and the read
\* yields an arbitrary value in a build without.
Abort == "abort"

\* Building `"... " + std::to_string(o["id"].GetUint64())` for an error
\* message: defined only when o has a uint64 id.
IdReadable(o) == IsObject(o) /\ HasMember(o, "id") /\ IsUint64(Get(o, "id"))
ThrowWithId(o) ==
  IF IdReadable(o) THEN Throw(InputException)
  ELSE [errs |-> {InputException, Abort}, val |-> <<>>]

Zeros(n) == [i \in 1..n |-> 0]

(***************************************************************************)
(* Scalar helpers.                                                         *)
(***************************************************************************)
parse_coordinates(object, key) ==
  LET c == Get(object, key) IN
  IF ~IsArray(c) \/ Size(c) < 2 \/ ~IsNumber(c.a[1]) \/ ~IsNumber(c.a[2])
  THEN Throw(InputException)
  ELSE Ok([lon |-> c.a[1].n, lat |-> c.a[2].n])

get_string(object, key) ==
  IF HasMember(object, key)
  THEN IF ~IsString(Get(object, key)) THEN Throw(InputException)
       ELSE Ok(Get(object, key).s)
  ELSE Ok("")

NoString == [has |-> FALSE, v |-> ""]
get_optional_string(object, key) ==
  IF HasMember(object, key)
  THEN IF ~IsString(Get(object, key)) THEN Throw(InputException)
       ELSE Ok([has |-> TRUE, v |-> Get(object, key).s])
  ELSE Ok(NoString)

get_double(object, key) ==
  IF HasMember(object, key)
  THEN IF ~IsNumber(Get(object, key)) THEN Throw(InputException)
       ELSE Ok(Get(object, key).n)
  ELSE Ok(1)

get_amount_lenient(object, key, amount_size) ==
  IF HasMember(object, key)
  THEN LET a == Get(object, key) IN
       IF ~IsArray(a) THEN Throw(InputException)
       ELSE IF \E i \in 1..Size(a) : ~IsUint(a.a[i]) THEN Throw(InputException)
       ELSE Ok([i \in 1..Size(a) |-> a.a[i].n])
  ELSE Ok(Zeros(amount_size))

get_amount(object, key, amount_size) ==
  IF HasMember(object, key)
  THEN LET a == Get(object, key) IN
       IF ~IsArray(a) THEN Throw(InputException)
       ELSE IF Size(a) # amount_size THEN Throw(InputException)
       ELSE IF \E i \in 1..Size(a) : ~IsUint(a.a[i]) THEN Throw(InputException)
       ELSE Ok([i \in 1..Size(a) |-> a.a[i].n])
  ELSE Ok(Zeros(amount_size))

get_skills(object) ==
  IF HasMember(object, "skills")
  THEN LET sk == Get(object, "skills") IN
       IF ~IsArray(sk) THEN Throw(InputException)
       ELSE IF \E i \in 1..Size(sk) : ~IsUint(sk.a[i]) THEN Throw(InputException)
       ELSE Ok({sk.a[i].n : i \in 1..Size(sk)})
  ELSE Ok({})

get_duration(object, key) ==
  IF HasMember(object, key)
  THEN IF ~IsUint(Get(object, key)) THEN Throw(InputException)
       ELSE Ok(Get(object, key).n)
  ELSE Ok(0)

\* The map as the set of its (name, value) pairs; a repeated name keeps the
\* value assigned last.
get_duration_map(object, key) ==
  IF ~HasMember(object, key) THEN Ok({})
  ELSE LET d == Get(object, key) IN
       IF ~IsObject(d) THEN Throw(RuntimeError)
       ELSE IF \E i \in 1..Len(d.m) : ~IsUint(d.m[i].value)
            THEN Throw(RuntimeError)
            ELSE Ok({[name |-> d.m[i].name, value |-> d.m[i].value.n] :
                      i \in {i \in 1..Len(d.m) :
                               \A j \in (i + 1)..Len(d.m) :
                                 d.m[j].name # d.m[i].name}})

get_priority(object) ==
  IF HasMember(object, "priority")
  THEN IF ~IsUint(Get(object, "priority")) THEN Throw(InputException)
       ELSE Ok(Get(object, "priority").n)
  ELSE Ok(0)

NoValue == [has |-> FALSE, v |-> 0]
NoId == [has |-> FALSE, v |-> [hi |-> 0, lo |-> 0]]
get_value_for(object, key) ==
  IF HasMember(object, key)
  THEN IF ~IsUint(Get(object, key)) THEN Throw(InputException)
       ELSE Ok([has |-> TRUE, v |-> Get(object, key).n])
  ELSE Ok(NoValue)

check_id(v) ==
  IF ~IsObject(v) THEN Throw(InputException)
  ELSE IF ~HasMember(v, "id") \/ ~IsUint64(Get(v, "id"))
       THEN Throw(InputException)
       ELSE Ok(<<>>)

check_shipment(v) ==
  IF ~IsObject(v) THEN Throw(InputException)
  ELSE IF ~HasMember(v, "pickup") \/ ~IsObject(Get(v, "pickup"))
       THEN Throw(InputException)
       ELSE IF ~HasMember(v, "delivery") \/ ~IsObject(Get(v, "delivery"))
            THEN Throw(InputException)
            ELSE Ok(<<>>)

check_location(v) ==
  IF ~HasMember(v, "location") \/ ~IsArray(Get(v, "location"))
  THEN ThrowWithId(v)
  ELSE Ok(<<>>)

(***************************************************************************)
(* Time windows.  The TimeWindow class is not part of the sources; it is   *)
(* modelled from the data model of the specification: a window stores its  *)
(* bounds as internal durations, a window with start > end is an input     *)
(* error, the default window is unbounded and windows are ordered by       *)
(* (start, end).                                                           *)
(***************************************************************************)
\* Stands for std::numeric_limits<Duration>::max(): above every duration of
\* the explored documents.
MaxDuration == 2147483647
DefaultTimeWindow == [start |-> 0, end |-> MaxDuration]

TimeWindow(start, end) ==
  IF start > end THEN Throw(InputException)
  ELSE Ok([start |-> Value(scale_from_user_duration(Wide(start))),
           end |-> Value(scale_from_user_duration(Wide(end)))])

TwLess(lhs, rhs) ==
  lhs.start < rhs.start \/ (lhs.start = rhs.start /\ lhs.end < rhs.end)

\* std::sort(tws.begin(), tws.end()): the elements in ascending order of
\* operator<.  Windows that are equivalent under operator< are equal, so the
\* result is unique.
RECURSIVE InsertTw(_, _)
InsertTw(x, s) ==
  IF s = <<>> THEN <<x>>
  ELSE IF TwLess(x, Head(s)) THEN <<x>> \o s
       ELSE <<Head(s)>> \o InsertTw(x, Tail(s))

RECURSIVE SortTws(_)
SortTws(s) == IF s = <<>> THEN <<>> ELSE InsertTw(Head(s), SortTws(Tail(s)))

get_time_window(tw) ==
  IF ~IsArray(tw) \/ Size(tw) < 2 \/ ~IsUint(tw.a[1]) \/ ~IsUint(tw.a[2])
  THEN Throw(InputException)
  ELSE TimeWindow(tw.a[1].n, tw.a[2].n)

get_vehicle_time_window(v) ==
  IF HasMember(v, "time_window") THEN get_time_window(Get(v, "time_window"))
  ELSE Ok(DefaultTimeWindow)

\* Lines 225-230 of get_time_windows: ws are the results of get_time_window
\* on the elements, in order.
TransformUnsorted(ws) ==
  IF AnyFailed(ws) THEN [errs |-> FirstFailure(ws).errs, val |-> <<>>]
  ELSE Ok(Vals(ws))

TransformAndSort(ws) ==
  IF AnyFailed(ws) THEN [errs |-> FirstFailure(ws).errs, val |-> <<>>]
  ELSE Ok(SortTws(Vals(ws)))

get_time_windows_unsorted(o) ==
  IF HasMember(o, "time_windows")
  THEN IF ~IsArray(Get(o, "time_windows")) \/ Size(Get(o, "time_windows")) = 0
       THEN ThrowWithId(o)
       ELSE TransformUnsorted([k \in 1..Size(Get(o, "time_windows")) |->
                                 get_time_window(Get(o, "time_windows").a[k])])
  ELSE Ok(<<DefaultTimeWindow>>)

get_time_windows(o) ==
  IF HasMember(o, "time_windows")
  THEN IF ~IsArray(Get(o, "time_windows")) \/ Size(Get(o, "time_windows")) = 0
       THEN ThrowWithId(o)
       ELSE TransformAndSort([k \in 1..Size(Get(o, "time_windows")) |->
                                get_time_window(Get(o, "time_windows").a[k])])
  ELSE Ok(<<DefaultTimeWindow>>)

\* utils::check_tws is not part of the sources and the specification does not
\* say which window lists it refuses: a call either returns or raises an
\* input error.
check_tws_outcomes == {{}, {InputException}}

(***************************************************************************)
(* Breaks.  A Break, VehicleStep, Location, Vehicle or Job is the record   *)
(* of the arguments its constructor is called with; the operator named     *)
(* after a constructor takes the results of the argument expressions.      *)
(***************************************************************************)
NoAmount == [has |-> FALSE, v |-> <<>>]
Some(r) == IF Failed(r) THEN r ELSE Ok([has |-> TRUE, v |-> r.val])

\* Lines 245-249.  max_load is computed before the call; the other arguments
\* are evaluated in an unspecified order.
Break(id, tws, service, description, max_load) ==
  IF Failed(max_load) THEN max_load
  ELSE IF tws.errs \union service.errs \union description.errs # {}
  THEN [errs |-> tws.errs \union service.errs \union description.errs,
        val |-> <<>>]
  ELSE Ok([id |-> id,
           tws |-> tws.val,
           service |-> service.val,
           description |-> description.val,
           max_load |-> max_load.val])

get_break(b, amount_size) ==
  IF Failed(check_id(b)) THEN check_id(b)
  ELSE Break(GetUint64(Get(b, "id")),
             get_time_windows(b),
             get_duration(b, "service"),
             get_string(b, "description"),
             IF HasMember(b, "max_load")
             THEN Some(get_amount(b, "max_load", amount_size))
             ELSE Ok(NoAmount))

\* The comparison handed to std::ranges::sort.
BreakLessStartOnly(a, b) == a.tws[1].start < b.tws[1].start

BreakLess(a, b) ==
  \/ a.tws[1].start < b.tws[1].start
  \/ (a.tws[1].start = b.tws[1].start /\ a.tws[1].end < b.tws[1].end)

\* std::ranges::sort is not stable: it leaves the breaks in some order in
\* which no break is less than one before it.  SortOutcomes is the set of
\* these orders.
SortOutcomes(breaks) ==
  IF breaks = <<>> THEN {<<>>}
  ELSE {s \in {[k \in DOMAIN breaks |-> breaks[p[k]]] :
                 p \in Permutations(DOMAIN breaks)} :
          \A k \in DOMAIN s : \A j \in (k + 1)..Len(s) : ~BreakLess(s[j], s[k])}

\* Lines 261-272: bs are the results of get_break on the elements, in order.
\* val is the set of break lists the sort can leave.
TransformAndSortBreaks(bs) ==
  IF AnyFailed(bs) THEN [errs |-> FirstFailure(bs).errs, val |-> {}]
  ELSE Ok(SortOutcomes(Vals(bs)))

get_vehicle_breaks(v, amount_size) ==
  IF HasMember(v, "breaks")
  THEN IF ~IsArray(Get(v, "breaks")) THEN [errs |-> ThrowWithId(v).errs,
                                           val |-> {}]
       ELSE TransformAndSortBreaks([k \in 1..Size(Get(v, "breaks")) |->
                                      get_break(Get(v, "breaks").a[k],
                                                amount_size)])
  ELSE Ok(SortOutcomes(<<>>))

(***************************************************************************)
(* Vehicle costs and forced steps.                                         *)
(***************************************************************************)
\* get_vehicle_costs taking 0 for every key a `costs` object does not give.
get_vehicle_costs_zero_when_partial(v) ==
  IF HasMember(v, "costs")
  THEN IF ~IsObject(Get(v, "costs")) THEN ThrowWithId(v)
       ELSE IF \E key \in {"fixed", "per_hour", "per_km"} :
                 /\ HasMember(Get(v, "costs"), key)
                 /\ ~IsUint(Get(Get(v, "costs"), key))
            THEN ThrowWithId(v)
       ELSE Ok([key \in {"fixed", "per_hour", "per_km"} |->
                  IF HasMember(Get(v, "costs"), key)
                  THEN Get(Get(v, "costs"), key).n
                  ELSE 0])
  ELSE Ok([fixed |-> 0,
           per_hour |-> DEFAULT_COST_PER_HOUR,
           per_km |-> DEFAULT_COST_PER_KM])

get_vehicle_costs(v) ==
  IF HasMember(v, "costs")
  THEN IF ~IsObject(Get(v, "costs")) THEN ThrowWithId(v)
       ELSE IF /\ HasMember(Get(v, "costs"), "fixed")
               /\ ~IsUint(Get(Get(v, "costs"), "fixed"))
            THEN ThrowWithId(v)
       ELSE IF /\ HasMember(Get(v, "costs"), "per_hour")
               /\ ~IsUint(Get(Get(v, "costs"), "per_hour"))
            THEN ThrowWithId(v)
       ELSE IF /\ HasMember(Get(v, "costs"), "per_km")
               /\ ~IsUint(Get(Get(v, "costs"), "per_km"))
            THEN ThrowWithId(v)
       ELSE Ok([fixed |-> IF HasMember(Get(v, "costs"), "fixed")
                          THEN Get(Get(v, "costs"), "fixed").n
                          ELSE 0,
                per_hour |-> IF HasMember(Get(v, "costs"), "per_hour")
                             THEN Get(Get(v, "costs"), "per_hour").n
                             ELSE DEFAULT_COST_PER_HOUR,
                per_km |-> IF HasMember(Get(v, "costs"), "per_km")
                           THEN Get(Get(v, "costs"), "per_km").n
                           ELSE DEFAULT_COST_PER_KM])
  ELSE Ok([fixed |-> 0,
           per_hour |-> DEFAULT_COST_PER_HOUR,
           per_km |-> DEFAULT_COST_PER_KM])

\* Lines 355-392: the step built from service_at, service_after,
\* service_before and type once they are read.
VehicleStep(v, json_step, at, after, before, type_str) ==
  IF Failed(at) THEN at
  ELSE IF Failed(after) THEN after
  ELSE IF Failed(before) THEN before
  ELSE IF Failed(type_str) THEN type_str
  ELSE IF type_str.val = "start"
       THEN Ok([step_type |-> "START", job_type |-> "", id |-> NoId,
                forced_service |-> [at |-> at.val, after |-> after.val,
                                    before |-> before.val]])
  ELSE IF type_str.val = "end"
       THEN Ok([step_type |-> "END", job_type |-> "", id |-> NoId,
                forced_service |-> [at |-> at.val, after |-> after.val,
                                    before |-> before.val]])
  ELSE IF ~HasMember(json_step, "id") \/ ~IsUint64(Get(json_step, "id"))
       THEN ThrowWithId(v)
  ELSE IF type_str.val \in {"job", "pickup", "delivery"}
       THEN Ok([step_type |-> "JOB",
                job_type |-> IF type_str.val = "job" THEN "SINGLE"
                             ELSE IF type_str.val = "pickup" THEN "PICKUP"
                             ELSE "DELIVERY",
                id |-> [has |-> TRUE, v |-> GetUint64(Get(json_step, "id"))],
                forced_service |-> [at |-> at.val, after |-> after.val,
                                    before |-> before.val]])
  ELSE IF type_str.val = "break"
       THEN Ok([step_type |-> "BREAK", job_type |-> "",
                id |-> [has |-> TRUE, v |-> GetUint64(Get(json_step, "id"))],
                forced_service |-> [at |-> at.val, after |-> after.val,
                                    before |-> before.val]])
  ELSE ThrowWithId(v)

\* One iteration of the loop of get_vehicle_steps.  A step that is not an
\* object fails the assertion of HasMember.
get_vehicle_step(json_step, v) ==
  IF ~IsObject(json_step) THEN [errs |-> {Abort, InputException}, val |-> <<>>]
  ELSE VehicleStep(v, json_step,
                   get_value_for(json_step, "service_at"),
                   get_value_for(json_step, "service_after"),
                   get_value_for(json_step, "service_before"),
                   get_string(json_step, "type"))

\* steps are the results of the iterations, in order.
CollectSteps(steps) ==
  IF AnyFailed(steps) THEN [errs |-> FirstFailure(steps).errs, val |-> <<>>]
  ELSE Ok(Vals(steps))

get_vehicle_steps(v) ==
  IF HasMember(v, "steps")
  THEN IF ~IsArray(Get(v, "steps")) THEN ThrowWithId(v)
       ELSE CollectSteps([k \in 1..Size(Get(v, "steps")) |->
                            get_vehicle_step(Get(v, "steps").a[k], v)])
  ELSE Ok(<<>>)

(***************************************************************************)
(* Locations, vehicles and jobs.                                           *)
(***************************************************************************)
NoCoordinates == [has |-> FALSE, lon |-> 0, lat |-> 0]
NoLocation == [has |-> FALSE, index |-> NoValue, coords |-> NoCoordinates]

\* Location(index), Location({index, coords}) and Location(coords): index is
\* the optional matrix index, c the result of parse_coordinates.
Location(index, c) ==
  IF Failed(c) THEN c
  ELSE Ok([has |-> TRUE, index |-> index,
           coords |-> [has |-> TRUE, lon |-> c.val.lon, lat |-> c.val.lat]])

\* Lines 405-451: the optional start or end location of a vehicle, from the
\* keys `start`/`start_index` or `end`/`end_index`.
get_vehicle_location(json_vehicle, coords_key, index_key) ==
  IF HasMember(json_vehicle, index_key)
  THEN IF ~IsUint(Get(json_vehicle, index_key)) THEN Throw(InputException)
       ELSE IF HasMember(json_vehicle, coords_key)
            THEN Location([has |-> TRUE,
                           v |-> ToIndex(Get(json_vehicle, index_key).n)],
                          parse_coordinates(json_vehicle, coords_key))
            ELSE Ok([has |-> TRUE,
                     index |-> [has |-> TRUE,
                                v |-> ToIndex(Get(json_vehicle, index_key).n)],
                     coords |-> NoCoordinates])
  ELSE IF HasMember(json_vehicle, coords_key)
       THEN Location(NoValue, parse_coordinates(json_vehicle, coords_key))
       ELSE Ok(NoLocation)

\* Lines 453-473.  start, end and profile are computed before the call, in
\* this order; the other arguments are evaluated in an unspecified order, so
\* the call ends with the exception of any argument that raises one.  val is
\* the set of vehicles the call can return: one per order in which the sort
\* can leave the breaks.
Vehicle(v_id, start, end, profile, capacity, skills, tw, breaks, description, costs, speed_factor, service_type, max_tasks, max_travel_time, max_distance, steps) ==
  LET arg_errs == capacity.errs \union skills.errs \union breaks.errs
                    \union description.errs \union costs.errs
                    \union speed_factor.errs \union service_type.errs
                    \union max_tasks.errs \union max_travel_time.errs
                    \union max_distance.errs \union steps.errs
  IN
  IF Failed(start) THEN [errs |-> start.errs, val |-> {}]
  ELSE IF Failed(end) THEN [errs |-> end.errs, val |-> {}]
  ELSE IF Failed(profile) THEN [errs |-> profile.errs, val |-> {}]
  ELSE IF arg_errs # {} THEN [errs |-> arg_errs, val |-> {}]
  ELSE Ok({[id |-> v_id,
            start |-> start.val,
            end |-> end.val,
            profile |-> IF profile.val = "" THEN DEFAULT_PROFILE
                        ELSE profile.val,
            capacity |-> capacity.val,
            skills |-> skills.val,
            tw |-> tw,
            breaks |-> bs,
            description |-> description.val,
            costs |-> costs.val,
            speed_factor |-> speed_factor.val,
            service_type |-> service_type.val,
            max_tasks |-> max_tasks.val,
            max_travel_time |-> max_travel_time.val,
            max_distance |-> max_distance.val,
            steps |-> steps.val] : bs \in breaks.val})

get_vehicle(json_vehicle, amount_size, tw) ==
  IF Failed(check_id(json_vehicle))
  THEN [errs |-> check_id(json_vehicle).errs, val |-> {}]
  ELSE Vehicle(GetUint64(Get(json_vehicle, "id")),
               get_vehicle_location(json_vehicle, "start", "start_index"),
               get_vehicle_location(json_vehicle, "end", "end_index"),
               get_string(json_vehicle, "profile"),
               get_amount(json_vehicle, "capacity", amount_size),
               get_skills(json_vehicle),
               tw,
               get_vehicle_breaks(json_vehicle, amount_size),
               get_string(json_vehicle, "description"),
               get_vehicle_costs(json_vehicle),
               get_double(json_vehicle, "speed_factor"),
               get_optional_string(json_vehicle, "service_type"),
               get_value_for(json_vehicle, "max_tasks"),
               get_value_for(json_vehicle, "max_travel_time"),
               get_value_for(json_vehicle, "max_distance"),
               get_vehicle_steps(json_vehicle))

get_task_location(v) ==
  IF HasMember(v, "location_index")
  THEN IF ~IsUint(Get(v, "location_index")) THEN ThrowWithId(v)
       ELSE IF HasMember(v, "location")
            THEN Location([has |-> TRUE,
                           v |-> ToIndex(Get(v, "location_index").n)],
                          parse_coordinates(v, "location"))
            ELSE Ok([has |-> TRUE,
                     index |-> [has |-> TRUE,
                                v |-> ToIndex(Get(v, "location_index").n)],
                     coords |-> NoCoordinates])
  ELSE IF Failed(check_location(v)) THEN check_location(v)
       ELSE Location(NoValue, parse_coordinates(v, "location"))

need_amount_compat_ignoring_pickup(json_job) ==
  HasMember(json_job, "amount") /\ ~HasMember(json_job, "delivery")

need_amount_compat(json_job) ==
  /\ HasMember(json_job, "amount")
  /\ ~HasMember(json_job, "delivery")
  /\ ~HasMember(json_job, "pickup")

\* Job(id, location, setup, service, service_per_vehicle_type, delivery,
\* pickup, skills, priority, tws, description) of a single job: the
\* arguments are evaluated in an unspecified order.
Job(id, location, setup, service, service_per_vehicle_type, delivery, pickup, skills, priority, tws, description) ==
  LET arg_errs == location.errs \union setup.errs \union service.errs
                    \union service_per_vehicle_type.errs \union delivery.errs
                    \union pickup.errs \union skills.errs \union priority.errs
                    \union tws.errs \union description.errs
  IN
  IF arg_errs # {} THEN [errs |-> arg_errs, val |-> <<>>]
  ELSE Ok([id |-> id,
           type |-> "SINGLE",
           location |-> location.val,
           setup |-> setup.val,
           service |-> service.val,
           service_per_vehicle_type |-> service_per_vehicle_type.val,
           delivery |-> delivery.val,
           pickup |-> pickup.val,
           skills |-> skills.val,
           priority |-> priority.val,
           tws |-> tws.val,
           description |-> description.val])

get_job(json_job, amount_size) ==
  IF Failed(check_id(json_job)) THEN check_id(json_job)
  ELSE Job(GetUint64(Get(json_job, "id")),
           get_task_location(json_job),
           get_duration(json_job, "setup"),
           get_duration(json_job, "service"),
           get_duration_map(json_job, "service_per_vehicle_type"),
           IF need_amount_compat(json_job)
           THEN get_amount(json_job, "amount", amount_size)
           ELSE get_amount(json_job, "delivery", amount_size),
           get_amount(json_job, "pickup", amount_size),
           get_skills(json_job),
           get_priority(json_job),
           get_time_windows(json_job),
           get_string(json_job, "description"))

\* Job(id, type, location, setup, service, service_per_vehicle_type, amount,
\* skills, priority, tws, description) of one half of a shipment: amount,
\* skills and priority are values computed before the call.
ShipmentJob(id, type, location, setup, service, service_per_vehicle_type, amount, skills, priority, tws, description) ==
  LET arg_errs == location.errs \union setup.errs \union service.errs
                    \union service_per_vehicle_type.errs \union tws.errs
                    \union description.errs
  IN
  IF arg_errs # {} THEN [errs |-> arg_errs, val |-> <<>>]
  ELSE Ok([id |-> id,
           type |-> type,
           location |-> location.val,
           setup |-> setup.val,
           service |-> service.val,
           service_per_vehicle_type |-> service_per_vehicle_type.val,
           amount |-> amount,
           skills |-> skills,
           priority |-> priority,
           tws |-> tws.val,
           description |-> description.val])

\* Lines 626-639 and 642-655: json_task is the `pickup` or `delivery` object.
get_shipment_task(json_task, type, amount, skills, priority) ==
  IF Failed(check_id(json_task)) THEN check_id(json_task)
  ELSE ShipmentJob(GetUint64(Get(json_task, "id")),
                   type,
                   get_task_location(json_task),
                   get_duration(json_task, "setup"),
                   get_duration(json_task, "service"),
                   get_duration_map(json_task, "service_per_vehicle_type"),
                   amount,
                   skills,
                   priority,
                   get_time_windows(json_task),
                   get_string(json_task, "description"))

\* A shipment of which only the pickup is handed to the Input.
ShipmentPairPickupOnly(pickup, delivery) ==
  IF Failed(pickup) THEN pickup
  ELSE IF Failed(delivery) THEN delivery
  ELSE Ok(<<pickup.val>>)

\* The pickup is built before the delivery is looked at.
ShipmentPair(pickup, delivery) ==
  IF Failed(pickup) THEN pickup
  ELSE IF Failed(delivery) THEN delivery
  ELSE Ok(<<pickup.val, delivery.val>>)

\* Lines 620-657, with the own keys of the delivery read for its priority.
ShipmentJobsDeliveryOwnPriority(json_shipment, amount, skills, priority) ==
  IF Failed(amount) THEN amount
  ELSE IF Failed(skills) THEN skills
  ELSE IF Failed(priority) THEN priority
  ELSE ShipmentPair(
         get_shipment_task(Get(json_shipment, "pickup"), "PICKUP",
                           amount.val, skills.val, priority.val),
         get_shipment_task(Get(json_shipment, "delivery"), "DELIVERY",
                           amount.val, skills.val,
                           get_priority(Get(json_shipment,
                                            "delivery")).val))

\* Lines 620-657: amount, skills and priority are the results of reading the
\* keys of the shipment.
ShipmentJobs(json_shipment, amount, skills, priority) ==
  IF Failed(amount) THEN amount
  ELSE IF Failed(skills) THEN skills
  ELSE IF Failed(priority) THEN priority
  ELSE ShipmentPair(
         get_shipment_task(Get(json_shipment, "pickup"), "PICKUP",
                           amount.val, skills.val, priority.val),
         get_shipment_task(Get(json_shipment, "delivery"), "DELIVERY",
                           amount.val, skills.val, priority.val))

\* Lines 617-657: the pickup and delivery jobs of one element of `shipments`.
get_shipment(json_shipment, amount_size) ==
  IF Failed(check_shipment(json_shipment)) THEN check_shipment(json_shipment)
  ELSE ShipmentJobs(json_shipment,
                    get_amount(json_shipment, "amount", amount_size),
                    get_skills(json_shipment),
                    get_priority(json_shipment))

(***************************************************************************)
(* Custom matrices.                                                        *)
(***************************************************************************)
get_matrix_any_row_length(m) ==
  IF ~IsArray(m) THEN Throw(InputException)
  ELSE IF \E r \in 1..Size(m) : ~IsArray(m.a[r])
       THEN Throw(InputException)
       ELSE IF \E r \in 1..Size(m) : \E c \in 1..Size(m.a[r]) :
                 ~IsUint(m.a[r].a[c])
            THEN Throw(InputException)
            ELSE Ok([r \in 1..Size(m) |->
                      [c \in 1..Size(m.a[r]) |-> m.a[r].a[c].n]])

get_matrix(m) ==
  IF ~IsArray(m) THEN Throw(InputException)
  ELSE IF \E r \in 1..Size(m) : ~IsArray(m.a[r]) \/ Size(m.a[r]) # Size(m)
       THEN Throw(InputException)
       ELSE IF \E r \in 1..Size(m) : \E c \in 1..Size(m) : ~IsUint(m.a[r].a[c])
            THEN Throw(InputException)
            ELSE Ok([r \in 1..Size(m) |->
                      [c \in 1..Size(m) |-> m.a[r].a[c].n]])

(***************************************************************************)
(* parse(input, input_str, geometry).  json_input is the parsed document;  *)
(* pc is the position in parse; vehicles, jobs and the three matrix maps   *)
(* are what parse has handed to the Input so far (Input::add_vehicle,      *)
(* add_job, add_shipment and set_*_matrix are not part of the sources:     *)
(* they are modelled as storing their arguments).                          *)
(***************************************************************************)
VARIABLES json_input, pc, err, i, has_jobs, has_shipments, amount_size,
          vehicles, jobs, durations_matrices, distances_matrices,
          costs_matrices

\* The solution a solver run holds once the input is parsed: one route per
\* vehicle, a route being the sequence of the ranks in `jobs` of the tasks it
\* serves, and the ranks of the tasks no route serves.
VARIABLES routes, unassigned

\* A computation on scaled values: the functions applied so far, the user
\* value it started from, the internal value, the user value scaled back
\* with the outcome of the assertion, the vehicle object, the costs read in
\* it and the metres of the cost evaluated, and the number and the total of
\* the costs summed.
VARIABLES calls, user, internal, restored, vehicle_json, vehicle_costs, metres,
          count, total

input_vars == <<json_input, pc, err, i, has_jobs, has_shipments, amount_size,
                vehicles, jobs, durations_matrices, distances_matrices,
                costs_matrices>>
solution_vars == <<routes, unassigned>>
scaling_vars ==
  <<calls, user, internal, restored, vehicle_json, vehicle_costs, metres,
    count, total>>
vars == <<input_vars, solution_vars, scaling_vars>>

NoError == [kind |-> "", at |-> ""]

\* No solution is held, and no scaled value is computed.
NoSolution == routes = <<>> /\ unassigned = {}
NoResult == [assertion |-> TRUE, val |-> WideZero]
NoCosts == [fixed |-> 0, per_hour |-> 0, per_km |-> 0]
NoScaling ==
  /\ calls = <<>>
  /\ user = WideZero
  /\ internal = WideZero
  /\ restored = NoResult
  /\ vehicle_json = JNull
  /\ vehicle_costs = NoCosts
  /\ metres = 0
  /\ count = 0
  /\ total = WideZero

\* Input::set_durations_matrix and its two siblings: the matrix of a profile
\* is replaced.
set_matrix(matrices, profile, m) ==
  {e \in matrices : e.profile # profile}
    \union {[profile |-> profile, matrix |-> m]}

\* Where parse continues once the vehicles, or the jobs, are added.
AfterVehicles ==
  IF has_jobs THEN "jobs" ELSE IF has_shipments THEN "shipments" ELSE "matrices"
AfterJobs == IF has_shipments THEN "shipments" ELSE "matrices"

\* Lines 558-571: the main checks.
MainChecksRequiringJobs ==
  /\ pc = "main_checks"
  /\ LET hj == /\ HasMember(json_input, "jobs")
               /\ IsArray(Get(json_input, "jobs"))
               /\ Size(Get(json_input, "jobs")) # 0
         hs == /\ HasMember(json_input, "shipments")
               /\ IsArray(Get(json_input, "shipments"))
               /\ Size(Get(json_input, "shipments")) # 0
         bad_vehicles == \/ ~HasMember(json_input, "vehicles")
                         \/ ~IsArray(Get(json_input, "vehicles"))
                         \/ Size(Get(json_input, "vehicles")) = 0
     IN /\ has_jobs' = hj
        /\ has_shipments' = hs
        /\ IF ~hj \/ bad_vehicles
           THEN /\ pc' = "failed"
                /\ err' = [kind |-> InputException, at |-> pc]
           ELSE /\ pc' = "first_vehicle"
                /\ err' = err
  /\ UNCHANGED <<json_input, i, amount_size, vehicles, jobs,
                 durations_matrices, distances_matrices, costs_matrices>>

MainChecks ==
  /\ pc = "main_checks"
  /\ LET hj == /\ HasMember(json_input, "jobs")
               /\ IsArray(Get(json_input, "jobs"))
               /\ Size(Get(json_input, "jobs")) # 0
         hs == /\ HasMember(json_input, "shipments")
               /\ IsArray(Get(json_input, "shipments"))
               /\ Size(Get(json_input, "shipments")) # 0
         bad_vehicles == \/ ~HasMember(json_input, "vehicles")
                         \/ ~IsArray(Get(json_input, "vehicles"))
                         \/ Size(Get(json_input, "vehicles")) = 0
     IN /\ has_jobs' = hj
        /\ has_shipments' = hs
        /\ IF (~hj /\ ~hs) \/ bad_vehicles
           THEN /\ pc' = "failed"
                /\ err' = [kind |-> InputException, at |-> pc]
           ELSE /\ pc' = "first_vehicle"
                /\ err' = err
  /\ UNCHANGED <<json_input, i, amount_size, vehicles, jobs,
                 durations_matrices, distances_matrices, costs_matrices>>

\* Lines 572-581: the amount size, from the first vehicle.
FirstVehicle ==
  /\ pc = "first_vehicle"
  /\ LET first_vehicle == Get(json_input, "vehicles").a[1]
         first_vehicle_has_capacity ==
           /\ HasMember(first_vehicle, "capacity")
           /\ IsArray(Get(first_vehicle, "capacity"))
           /\ Size(Get(first_vehicle, "capacity")) > 0
     IN
     IF Failed(check_id(first_vehicle))
     THEN /\ pc' = "failed"
          /\ err' = [kind |-> InputException, at |-> pc]
          /\ UNCHANGED <<i, amount_size>>
     ELSE /\ amount_size' = IF first_vehicle_has_capacity
                            THEN Size(Get(first_vehicle, "capacity"))
                            ELSE 0
          /\ pc' = "vehicles"
          /\ i' = 1
          /\ err' = err
  /\ UNCHANGED <<json_input, has_jobs, has_shipments, vehicles, jobs,
                 durations_matrices, distances_matrices, costs_matrices>>

\* Lines 585-603, the body of the loop over `vehicles`.  errs are the
\* exceptions it can end with, val the lists of vehicles it can add.
\* Without `time_windows`: r is the result of get_vehicle.
OneVehicle(r) == [errs |-> r.errs, val |-> {<<v>> : v \in r.val}]

\* With `time_windows`: rs are the results of get_vehicle for the sorted
\* windows, in order.  One object has its breaks sorted the same way every
\* time, so the clones share the break order of the first.  check_tws runs
\* before the loop.
FirstCloneOnly(rs) ==
  IF AnyFailed(rs)
  THEN [errs |-> UNION check_tws_outcomes \union FirstFailure(rs).errs,
        val |-> {}]
  ELSE [errs |-> UNION check_tws_outcomes,
        val |-> {<<first>> : first \in rs[1].val}]

Clones(rs) ==
  IF AnyFailed(rs)
  THEN [errs |-> UNION check_tws_outcomes \union FirstFailure(rs).errs,
        val |-> {}]
  ELSE [errs |-> UNION check_tws_outcomes,
        val |-> {[k \in DOMAIN rs |->
                    CHOOSE w \in rs[k].val : w.breaks = first.breaks] :
                 first \in rs[1].val}]

\* timeWindows is the result of get_time_windows, tw of
\* get_vehicle_time_window.
expand_vehicle_first_window_only(json_vehicle, size, timeWindows, tw) ==
  IF ~IsObject(json_vehicle)
  THEN [errs |-> {Abort, InputException}, val |-> {}]
  ELSE IF ~HasMember(json_vehicle, "time_windows")
  THEN IF Failed(tw) THEN [errs |-> tw.errs, val |-> {}]
       ELSE OneVehicle(get_vehicle(json_vehicle, size, tw.val))
  ELSE IF Failed(timeWindows) THEN [errs |-> timeWindows.errs, val |-> {}]
  ELSE IF Failed(check_id(json_vehicle))
  THEN [errs |-> check_id(json_vehicle).errs, val |-> {}]
  ELSE FirstCloneOnly([k \in 1..Len(timeWindows.val) |->
                         get_vehicle(json_vehicle, size, timeWindows.val[k])])

expand_vehicle(json_vehicle, size, timeWindows, tw) ==
  IF ~IsObject(json_vehicle)
  THEN [errs |-> {Abort, InputException}, val |-> {}]
  ELSE IF ~HasMember(json_vehicle, "time_windows")
  THEN IF Failed(tw) THEN [errs |-> tw.errs, val |-> {}]
       ELSE OneVehicle(get_vehicle(json_vehicle, size, tw.val))
  ELSE IF Failed(timeWindows) THEN [errs |-> timeWindows.errs, val |-> {}]
  ELSE IF Failed(check_id(json_vehicle))
  THEN [errs |-> check_id(json_vehicle).errs, val |-> {}]
  ELSE Clones([k \in 1..Len(timeWindows.val) |->
                 get_vehicle(json_vehicle, size, timeWindows.val[k])])

\* Input::add_vehicle for each vehicle of one of the lists of r, or the
\* exception of r; last tells that the loop is at its last element.
AddVehicles(r, last) ==
  \E outcome \in r.errs \union (IF r.val # {} THEN {"added"} ELSE {}) :
    IF outcome = "added"
    THEN /\ \E vs \in r.val : vehicles' = vehicles \o vs
         /\ err' = err
         /\ IF last
            THEN pc' = AfterVehicles /\ i' = 1
            ELSE pc' = pc /\ i' = i + 1
    ELSE /\ pc' = "failed"
         /\ err' = [kind |-> outcome, at |-> pc]
         /\ UNCHANGED <<vehicles, i>>

AddVehicle ==
  /\ pc = "vehicles"
  /\ AddVehicles(expand_vehicle(Get(json_input, "vehicles").a[i], amount_size,
                                get_time_windows(
                                  Get(json_input, "vehicles").a[i]),
                                get_vehicle_time_window(
                                  Get(json_input, "vehicles").a[i])),
                 i = Size(Get(json_input, "vehicles")))
  /\ UNCHANGED <<json_input, has_jobs, has_shipments, amount_size, jobs,
                 durations_matrices, distances_matrices, costs_matrices>>

\* Input::add_job, or Input::add_shipment, with the jobs of r, or the
\* exception of r; next is where parse continues after the last element.
AddJobs(r, added, last, next) ==
  \E outcome \in r.errs \union (IF r.errs = {} THEN {"added"} ELSE {}) :
    IF outcome = "added"
    THEN /\ jobs' = jobs \o added
         /\ err' = err
         /\ IF last
            THEN pc' = next /\ i' = 1
            ELSE pc' = pc /\ i' = i + 1
    ELSE /\ pc' = "failed"
         /\ err' = [kind |-> outcome, at |-> pc]
         /\ UNCHANGED <<jobs, i>>

\* Lines 607-612.
AddJob ==
  /\ pc = "jobs"
  /\ AddJobs(get_job(Get(json_input, "jobs").a[i], amount_size),
             <<get_job(Get(json_input, "jobs").a[i], amount_size).val>>,
             i = Size(Get(json_input, "jobs")),
             AfterJobs)
  /\ UNCHANGED <<json_input, has_jobs, has_shipments, amount_size, vehicles,
                 durations_matrices, distances_matrices, costs_matrices>>

\* Lines 614-659.
AddShipment ==
  /\ pc = "shipments"
  /\ AddJobs(get_shipment(Get(json_input, "shipments").a[i], amount_size),
             get_shipment(Get(json_input, "shipments").a[i], amount_size).val,
             i = Size(Get(json_input, "shipments")),
             "matrices")
  /\ UNCHANGED <<json_input, has_jobs, has_shipments, amount_size, vehicles,
                 durations_matrices, distances_matrices, costs_matrices>>

\* Lines 661-664 and 684-687: which of `matrices` and `matrix` is read.
SelectMatricesPreferMatrix ==
  /\ pc = "matrices"
  /\ IF HasMember(json_input, "matrix")
     THEN pc' = "matrix" /\ err' = err
     ELSE IF HasMember(json_input, "matrices")
     THEN IF ~IsObject(Get(json_input, "matrices"))
          THEN /\ pc' = "failed"
               /\ err' = [kind |-> InputException, at |-> pc]
          ELSE /\ pc' = IF Len(Get(json_input, "matrices").m) = 0 THEN "done"
                        ELSE "matrices_entry"
               /\ err' = err
     ELSE pc' = "done" /\ err' = err
  /\ i' = 1
  /\ UNCHANGED <<json_input, has_jobs, has_shipments, amount_size, vehicles,
                 jobs, durations_matrices, distances_matrices, costs_matrices>>

SelectMatrices ==
  /\ pc = "matrices"
  /\ IF HasMember(json_input, "matrices")
     THEN IF ~IsObject(Get(json_input, "matrices"))
          THEN /\ pc' = "failed"
               /\ err' = [kind |-> InputException, at |-> pc]
          ELSE /\ pc' = IF Len(Get(json_input, "matrices").m) = 0 THEN "done"
                        ELSE "matrices_entry"
               /\ err' = err
     ELSE IF HasMember(json_input, "matrix")
          THEN pc' = "matrix" /\ err' = err
          ELSE pc' = "done" /\ err' = err
  /\ i' = 1
  /\ UNCHANGED <<json_input, has_jobs, has_shipments, amount_size, vehicles,
                 jobs, durations_matrices, distances_matrices, costs_matrices>>

NoMatrix == [has |-> FALSE, v |-> <<>>]

\* The matrix under one of the keys `durations`, `distances` and `costs` of
\* the value of a profile, when the key is there.
get_profile_matrix(value, key) ==
  IF HasMember(value, key) THEN Some(get_matrix(Get(value, key)))
  ELSE Ok(NoMatrix)

\* Lines 667-681: the three maps after the entry of a profile whose value is
\* an object, and whether an exception ended it.  The matrices set before
\* the exception stay set.
SetMatrices(maps, profile, durations, distances, costs) ==
  [thrown |-> Failed(durations) \/ Failed(distances) \/ Failed(costs),
   durations |->
     IF ~Failed(durations) /\ durations.val.has
     THEN set_matrix(maps.durations, profile, durations.val.v)
     ELSE maps.durations,
   distances |->
     IF ~Failed(durations) /\ ~Failed(distances) /\ distances.val.has
     THEN set_matrix(maps.distances, profile, distances.val.v)
     ELSE maps.distances,
   costs |->
     IF /\ ~Failed(durations) /\ ~Failed(distances) /\ ~Failed(costs)
        /\ costs.val.has
     THEN set_matrix(maps.costs, profile, costs.val.v)
     ELSE maps.costs]

\* Lines 665-682, the body of the loop over the members of `matrices`: a
\* member whose value is not an object is passed over.
matrices_entry(maps, profile, value) ==
  IF IsObject(value)
  THEN SetMatrices(maps, profile,
                   get_profile_matrix(value, "durations"),
                   get_profile_matrix(value, "distances"),
                   get_profile_matrix(value, "costs"))
  ELSE [thrown |-> FALSE, durations |-> maps.durations,
        distances |-> maps.distances, costs |-> maps.costs]

\* The maps of e replace those of the Input.
StoreMatrices(e, last) ==
  /\ durations_matrices' = e.durations
  /\ distances_matrices' = e.distances
  /\ costs_matrices' = e.costs
  /\ IF e.thrown
     THEN /\ pc' = "failed"
          /\ err' = [kind |-> InputException, at |-> pc]
          /\ i' = i
     ELSE /\ err' = err
          /\ IF last
             THEN pc' = "done" /\ i' = 1
             ELSE pc' = pc /\ i' = i + 1

AddMatrices ==
  /\ pc = "matrices_entry"
  /\ StoreMatrices(matrices_entry([durations |-> durations_matrices,
                                   distances |-> distances_matrices,
                                   costs |-> costs_matrices],
                                  Get(json_input, "matrices").m[i].name,
                                  Get(json_input, "matrices").m[i].value),
                   i = Len(Get(json_input, "matrices").m))
  /\ UNCHANGED <<json_input, has_jobs, has_shipments, amount_size, vehicles,
                 jobs>>

\* Lines 684-691: the deprecated `matrix` key.
AddMatrix ==
  /\ pc = "matrix"
  /\ IF Failed(get_matrix(Get(json_input, "matrix")))
     THEN /\ pc' = "failed"
          /\ err' = [kind |-> InputException, at |-> pc]
          /\ UNCHANGED durations_matrices
     ELSE /\ durations_matrices' =
               set_matrix(durations_matrices, DEFAULT_PROFILE,
                          get_matrix(Get(json_input, "matrix")).val)
          /\ pc' = "done"
          /\ err' = err
  /\ UNCHANGED <<json_input, i, has_jobs, has_shipments, amount_size,
                 vehicles, jobs, distances_matrices, costs_matrices>>

(***************************************************************************)
(* The explored input documents.  Each family varies one part of a valid   *)
(* base document over well-formed and malformed values.                    *)
(***************************************************************************)
\* The sequences over S of length at most n.
SeqsUpTo(S, n) == UNION {[1..k -> S] : k \in 0..n}

\* A member list: the key with each of the values, or the key left out.
Optional(key, values) == {<<>>} \union {<<Mem(key, v)>> : v \in values}

\* An array of n uints, the k-th being base + k.
UintArray(n, base) == JArr([k \in 1..n |-> JNum(base + k)])
NotUint == JNum(-1)

\* Values of an amount key: not an array, a non-uint entry, and the arrays
\* of every length up to MaxDim.
AmountValues(base) ==
  {JNum(base), JArr(<<NotUint>>)} \union {UintArray(n, base) : n \in 0..MaxDim}

Window(start, end) == JArr(<<JNum(start), JNum(end)>>)
ValidWindows == {Window(0, 1), Window(0, 2), Window(1, 2)}
InvalidWindows == {Window(2, 1), JNum(3)}
\* Values of a `time_windows` key.
TimeWindowsValues ==
  {JNum(0)} \union {JArr(ws) : ws \in SeqsUpTo(ValidWindows, MaxTws)}
    \union {JArr(<<w>>) : w \in InvalidWindows}
    \union {JArr(<<Window(0, 1), JArr(<<JNum(1)>>)>>),
            JArr(<<Window(0, 1), Window(-1, 4)>>)}

Id(n) == <<Mem("id", JNum(n))>>
Index(n) == <<Mem("location_index", JNum(n))>>

BaseVehicle == JObj(Id(1))
BaseJob == JObj(Id(11) \o Index(0))
BaseTask(n) == JObj(Id(n) \o Index(1))
BaseShipment ==
  JObj(<<Mem("pickup", BaseTask(21)), Mem("delivery", BaseTask(22))>>)

Document(vs, tasks, ms) == JObj(<<Mem("vehicles", JArr(vs))>> \o tasks \o ms)
OneJob(job) == <<Mem("jobs", JArr(<<job>>))>>
OneShipment(shipment) == <<Mem("shipments", JArr(<<shipment>>))>>

\* `jobs`, `shipments` and `vehicles` missing, not arrays, empty or filled.
MainDocuments ==
  {JObj(j \o s \o v) :
     j \in Optional("jobs", {JNum(0), JArr(<<>>), JArr(<<BaseJob>>),
                             JArr(<<BaseJob, JObj(Id(12) \o Index(1))>>)}),
     s \in Optional("shipments", {JNum(0), JArr(<<>>), JArr(<<BaseShipment>>)}),
     v \in Optional("vehicles", {JNum(0), JArr(<<>>), JArr(<<BaseVehicle>>),
                                 JArr(<<JNum(0)>>), JArr(<<JObj(<<>>)>>)})}

\* The amount keys of a job against the capacity of the first vehicle.
JobAmountDocuments ==
  {Document(<<JObj(Id(1) \o c)>>,
            OneJob(JObj(Id(11) \o Index(0) \o a \o d \o p)), <<>>) :
     c \in Optional("capacity", AmountValues(0)),
     a \in Optional("amount", AmountValues(30)),
     d \in Optional("delivery", AmountValues(50)),
     p \in Optional("pickup", AmountValues(70))}

\* The capacity of a second vehicle, and the max_load of a break.
VehicleAmountDocuments ==
  {Document(<<JObj(Id(1) \o c1 \o
                   <<Mem("breaks", JArr(<<JObj(Id(5) \o ml)>>))>>),
              JObj(Id(2) \o c2)>>,
            OneJob(BaseJob), <<>>) :
     c1 \in Optional("capacity", AmountValues(0)),
     c2 \in Optional("capacity", AmountValues(10)),
     ml \in Optional("max_load", AmountValues(20))}

\* Values of a `service_per_vehicle_type` key.
DurationMapValues ==
  {JNum(5), JObj(<<Mem("van", JNum(3)), Mem("van", JNum(4))>>),
   JObj(<<Mem("van", JNum(3)), Mem("bike", NotUint)>>)}

\* The other keys of a job: well-formed and malformed values of each, alone
\* and beside a `service_per_vehicle_type` map.
JobDocuments ==
  {Document(<<JObj(Id(1) \o <<Mem("capacity", UintArray(1, 0))>>)>>,
            <<Mem("jobs", JArr(<<BaseJob, job>>))>>, <<>>) :
     job \in {JNum(0), JObj(Index(0)), JObj(<<Mem("id", NotUint)>> \o Index(0)),
              JObj(<<Mem("id", JBig(0))>> \o Index(0))}
             \union
             {JObj(Id(12) \o loc \o spvt \o other) :
                loc \in {<<>>, Index(UINT16_MOD + 1), Index(-1),
                         <<Mem("location", JArr(<<JNum(2), JNum(48)>>))>>,
                         <<Mem("location", JArr(<<JNum(2)>>))>>,
                         Index(3) \o
                           <<Mem("location", JArr(<<JNum(2), JNum(48)>>))>>},
                spvt \in Optional("service_per_vehicle_type", DurationMapValues),
                other \in {<<>>,
                           <<Mem("delivery", UintArray(1, 50))>>,
                           <<Mem("delivery", UintArray(2, 50))>>,
                           <<Mem("setup", JNum(4)), Mem("service", JNum(6))>>,
                           <<Mem("service", NotUint)>>,
                           <<Mem("skills", UintArray(2, 0)),
                             Mem("priority", JNum(7)),
                             Mem("description", JStr("a"))>>,
                           <<Mem("skills", JNum(1))>>,
                           <<Mem("priority", NotUint)>>,
                           <<Mem("description", JNum(1))>>,
                           <<Mem("time_windows", JArr(<<>>))>>}}}

\* The time windows of a job, of the two halves of a shipment and of a break.
TimeWindowsDocuments ==
  {Document(<<BaseVehicle>>, OneJob(JObj(Id(11) \o Index(0) \o t)), <<>>) :
     t \in Optional("time_windows", TimeWindowsValues)}
  \union
  {Document(<<BaseVehicle>>,
            OneShipment(JObj(<<Mem("pickup", JObj(Id(21) \o Index(0) \o t)),
                               Mem("delivery", BaseTask(22))>>)), <<>>) :
     t \in Optional("time_windows", TimeWindowsValues)}
  \union
  {Document(<<BaseVehicle>>,
            OneShipment(JObj(<<Mem("pickup", BaseTask(21)),
                               Mem("delivery", JObj(Id(22) \o Index(0) \o t))>>)),
            <<>>) :
     t \in Optional("time_windows", TimeWindowsValues)}
  \union
  {Document(<<JObj(Id(1) \o <<Mem("breaks", JArr(<<JObj(Id(5) \o t)>>))>>)>>,
            OneJob(BaseJob), <<>>) :
     t \in Optional("time_windows", TimeWindowsValues)}

\* The windows of the vehicles: `time_window`, `time_windows`, both or
\* neither, for a first vehicle and for the one after it.
VehicleWindowValues ==
  {t \o w : t \in Optional("time_windows", TimeWindowsValues),
            w \in Optional("time_window", {Window(3, 4), Window(4, 3)})}

VehicleWindowDocuments ==
  {Document(<<JObj(Id(1) \o tw)>>, OneJob(BaseJob), <<>>) :
     tw \in VehicleWindowValues}
  \union
  {Document(<<BaseVehicle, second>>, OneJob(BaseJob), <<>>) :
     second \in {JNum(0)}
                \union {JObj(Id(2) \o tw) : tw \in VehicleWindowValues}
                \union {JObj(tw) :
                          tw \in Optional("time_windows", TimeWindowsValues)}}
  \union
  {Document(<<JObj(Id(1) \o t1 \o <<Mem("capacity", UintArray(1, 0))>>),
              JObj(Id(2) \o t2 \o <<Mem("start_index", JNum(2))>>)>>,
            OneJob(BaseJob), <<>>) :
     t1 \in {<<Mem("time_windows", JArr(<<Window(1, 2), Window(0, 1)>>))>>},
     t2 \in {<<>>, <<Mem("time_windows", JArr(<<Window(1, 2), Window(0, 2)>>))>>}}

\* The `breaks` of a vehicle: up to MaxBreaks breaks, the k-th with id k.
BreakValues ==
  {<<>>,
   <<Mem("time_windows", JArr(<<Window(0, 1)>>))>>,
   <<Mem("time_windows", JArr(<<Window(0, 2)>>))>>,
   <<Mem("time_windows", JArr(<<Window(1, 2), Window(0, 2)>>)),
     Mem("service", JNum(3))>>,
   <<Mem("time_windows", JArr(<<Window(1, 2)>>)),
     Mem("description", JStr("b"))>>,
   <<Mem("time_windows", JArr(<<Window(2, 1)>>))>>}

BreaksValues ==
  {JNum(0), JArr(<<JNum(0)>>), JArr(<<JObj(<<>>)>>)}
    \union {JArr([k \in DOMAIN bs |-> JObj(Id(k) \o bs[k])]) :
              bs \in SeqsUpTo(BreakValues, MaxBreaks)}

BreaksDocuments ==
  {Document(<<JObj(Id(1) \o b \o tw)>>, OneJob(BaseJob), <<>>) :
     b \in Optional("breaks", BreaksValues),
     tw \in {<<>>, <<Mem("time_windows", JArr(<<Window(1, 2), Window(0, 1)>>))>>}}

\* The forced `steps` of a second vehicle, beside a well-formed and an
\* ill-formed capacity.
StepsValues ==
  {JNum(0), JArr(<<>>), JArr(<<JNum(0)>>),
   JArr(<<JObj(<<Mem("type", JStr("start"))>>),
          JObj(<<Mem("type", JStr("job")), Mem("id", JNum(11)),
                 Mem("service_at", JNum(5))>>),
          JObj(<<Mem("type", JStr("break")), Mem("id", JNum(5)),
                 Mem("service_after", JNum(1)),
                 Mem("service_before", JNum(9))>>),
          JObj(<<Mem("type", JStr("end"))>>)>>),
   JArr(<<JObj(<<Mem("type", JStr("pickup")), Mem("id", JNum(21))>>),
          JObj(<<Mem("type", JStr("delivery")), Mem("id", JNum(22))>>)>>),
   JArr(<<JObj(<<Mem("type", JStr("job"))>>)>>),
   JArr(<<JObj(<<Mem("type", JStr("start")),
                 Mem("service_at", NotUint)>>)>>),
   JArr(<<JObj(<<Mem("type", JStr("nap")), Mem("id", JNum(1))>>)>>),
   JArr(<<JObj(<<Mem("type", JStr("end"))>>), JObj(<<Mem("id", JNum(1))>>)>>),
   JArr(<<JObj(<<>>)>>),
   JArr(<<JObj(<<Mem("type", JNum(0)), Mem("id", JNum(1))>>)>>),
   JArr(<<JObj(<<Mem("type", JStr("break")), Mem("id", JBig(7))>>),
          JObj(<<Mem("type", JStr("delivery")), Mem("id", NotUint)>>)>>)}

StepsDocuments ==
  {Document(<<JObj(Id(1) \o <<Mem("capacity", UintArray(1, 0))>>),
              JObj(Id(2) \o c \o <<Mem("steps", st)>>)>>,
            OneJob(BaseJob), <<>>) :
     c \in {<<>>, <<Mem("capacity", UintArray(2, 10))>>},
     st \in StepsValues}

\* Shipments: `amount`, `skills` and `priority` of the shipment itself, and
\* the same keys placed inside its `pickup` and `delivery` objects.
InnerKeys ==
  {<<>>,
   <<Mem("amount", UintArray(1, 90)), Mem("skills", UintArray(1, 8)),
     Mem("priority", JNum(3))>>,
   <<Mem("amount", JNum(0)), Mem("skills", JNum(0)), Mem("priority", NotUint)>>}

ShipmentDocuments ==
  {Document(<<JObj(Id(1) \o <<Mem("capacity", UintArray(1, 0))>>)>>,
            OneShipment(JObj(<<Mem("pickup", JObj(Id(21) \o Index(0) \o kp)),
                               Mem("delivery", JObj(Id(22) \o Index(1) \o kd))>>
                             \o a \o sk \o pr)), <<>>) :
     a \in Optional("amount", AmountValues(40)),
     sk \in Optional("skills", {UintArray(2, 0), JNum(0)}),
     pr \in Optional("priority", {JNum(7), NotUint}),
     kp \in InnerKeys,
     kd \in InnerKeys}
  \union
  {Document(<<BaseVehicle>>, OneShipment(shipment), <<>>) :
     shipment \in {JNum(0), JObj(<<>>),
                   JObj(<<Mem("pickup", JNum(0)),
                          Mem("delivery", BaseTask(22))>>),
                   JObj(<<Mem("pickup", BaseTask(21))>>),
                   JObj(<<Mem("pickup", BaseTask(21)),
                          Mem("delivery", JNum(0))>>),
                   JObj(<<Mem("pickup", JObj(Index(0))),
                          Mem("delivery", BaseTask(22))>>),
                   JObj(<<Mem("pickup", BaseTask(21)),
                          Mem("delivery", JObj(Index(0)))>>),
                   JObj(<<Mem("pickup",
                              JObj(Id(21) \o Index(0) \o
                                   <<Mem("service_per_vehicle_type", JNum(5))>>)),
                          Mem("delivery", BaseTask(22))>>)}}
  \union
  {Document(<<BaseVehicle>>,
            j \o <<Mem("shipments",
                       JArr(<<BaseShipment,
                              JObj(<<Mem("pickup", BaseTask(23)),
                                     Mem("delivery", BaseTask(24)),
                                     Mem("priority", JNum(2))>>)>>))>>,
            <<>>) :
     j \in Optional("jobs", {JArr(<<BaseJob>>)})}

\* Values of a matrix: not an array; up to MaxN rows, each not an array or of
\* any length up to MaxN; and square matrices with one entry that is no uint.
\* The entry of row r and column c of a well-formed row is 10 * r + c.
MatrixRow(r, len) ==
  IF len < 0 THEN JNum(0) ELSE JArr([c \in 1..len |-> JNum(10 * r + c)])

MatrixValues ==
  {JNum(0)}
    \union UNION {{JArr([r \in 1..n |-> MatrixRow(r, lens[r])]) :
                     lens \in [1..n -> -1..MaxN]} : n \in 0..MaxN}
    \union UNION {{JArr([r \in 1..n |->
                          JArr([c \in 1..n |-> IF <<r, c>> = bad THEN b
                                               ELSE JNum(10 * r + c)])]) :
                     bad \in (1..n) \X (1..n),
                     b \in {NotUint, JBig(0)}} : n \in 1..MaxN}

GoodMatrix(n, base) ==
  JArr([r \in 1..n |-> JArr([c \in 1..n |-> JNum(base + 10 * r + c)])])
BadMatrix == JArr(<<JArr(<<JNum(1), JNum(2)>>)>>)

MatricesEntries ==
  {JNum(0),
   JObj(<<Mem("durations", GoodMatrix(1, 100)),
          Mem("distances", GoodMatrix(2, 200)),
          Mem("costs", GoodMatrix(1, 300))>>),
   JObj(<<Mem("durations", GoodMatrix(1, 400)), Mem("distances", BadMatrix),
          Mem("costs", GoodMatrix(1, 500))>>),
   JObj(<<Mem("durations", GoodMatrix(2, 600)), Mem("costs", BadMatrix)>>),
   JObj(<<Mem("distances", GoodMatrix(1, 700))>>)}

MatricesValues ==
  {JNum(0), JObj(<<>>), JObj(<<Mem("car", JArr(<<>>))>>),
   JObj(<<Mem("car", JObj(<<>>))>>)}
    \union {JObj(<<Mem(profile, JObj(<<Mem(key, m)>>))>>) :
              profile \in {"car", "bike"},
              key \in {"durations", "distances", "costs"},
              m \in MatrixValues}
    \union {JObj(<<Mem("car", e1), Mem(profile, e2)>>) :
              e1 \in MatricesEntries, e2 \in MatricesEntries,
              profile \in {"car", "bike"}}

MatrixDocuments ==
  {Document(<<BaseVehicle>>, OneJob(BaseJob), <<Mem("matrix", m)>>) :
     m \in MatrixValues}
  \union
  {Document(<<BaseVehicle>>, OneJob(BaseJob), <<Mem("matrices", ms)>>) :
     ms \in MatricesValues}
  \union
  {Document(<<BaseVehicle>>, OneJob(BaseJob),
            <<Mem("matrix", m), Mem("matrices", ms)>>) :
     m \in {JNum(0), GoodMatrix(1, 800), BadMatrix},
     ms \in {JNum(0), JObj(<<>>), JObj(<<Mem("car", JNum(0))>>),
             JObj(<<Mem("car", JObj(<<Mem("durations", GoodMatrix(2, 900))>>))>>),
             JObj(<<Mem("bike", JObj(<<Mem("distances", GoodMatrix(1, 0))>>))>>)}}

\* Matrix indices of a vehicle, of a job and of a shipment, below and above
\* 2^16.
IndexValues == {0, 7, UINT16_MOD - 1, UINT16_MOD, UINT16_MOD + 7}
IndexDocuments ==
  {Document(<<JObj(Id(1) \o <<Mem("start_index", JNum(vs)),
                              Mem("end_index", JNum(ve))>>)>>,
            OneJob(JObj(Id(11) \o Index(t)))
              \o OneShipment(JObj(<<Mem("pickup", JObj(Id(21) \o Index(t))),
                                    Mem("delivery", JObj(Id(22) \o Index(0)))>>)),
            <<>>) :
     vs \in IndexValues, ve \in {0, UINT16_MOD + 7}, t \in IndexValues}

Documents ==
  MainDocuments \union JobAmountDocuments \union VehicleAmountDocuments
    \union JobDocuments \union TimeWindowsDocuments
    \union VehicleWindowDocuments \union BreaksDocuments
    \union StepsDocuments \union IndexDocuments
    \union ShipmentDocuments \union MatrixDocuments

(***************************************************************************)
(* The specification: parse run on each of the documents.                  *)
(***************************************************************************)
Init ==
  /\ json_input \in Documents
  /\ pc = "main_checks"
  /\ err = NoError
  /\ i = 1
  /\ has_jobs = FALSE
  /\ has_shipments = FALSE
  /\ amount_size = 0
  /\ vehicles = <<>>
  /\ jobs = <<>>
  /\ durations_matrices = {}
  /\ distances_matrices = {}
  /\ costs_matrices = {}
  /\ NoSolution
  /\ NoScaling

\* parse alone: no solution is built and nothing is scaled meanwhile.
Next ==
  \/ MainChecks /\ UNCHANGED <<solution_vars, scaling_vars>>
  \/ FirstVehicle /\ UNCHANGED <<solution_vars, scaling_vars>>
  \/ AddVehicle /\ UNCHANGED <<solution_vars, scaling_vars>>
  \/ AddJob /\ UNCHANGED <<solution_vars, scaling_vars>>
  \/ AddShipment /\ UNCHANGED <<solution_vars, scaling_vars>>
  \/ SelectMatrices /\ UNCHANGED <<solution_vars, scaling_vars>>
  \/ AddMatrices /\ UNCHANGED <<solution_vars, scaling_vars>>
  \/ AddMatrix /\ UNCHANGED <<solution_vars, scaling_vars>>

Spec == Init /\ [][Next]_vars

(***************************************************************************)
(* Views of a run of parse, used to state its properties.                  *)
(***************************************************************************)
\* Where parse is, or where it was when it raised.
Position == IF pc = "failed" THEN err.at ELSE pc
Rank(p) ==
  CASE p = "main_checks" -> 0
    [] p = "first_vehicle" -> 1
    [] p = "vehicles" -> 2
    [] p = "jobs" -> 3
    [] p = "shipments" -> 4
    [] OTHER -> 5

\* The arrays parse goes through, once the main checks have passed.
json_vehicles ==
  IF Rank(Position) >= 1 THEN Get(json_input, "vehicles").a ELSE <<>>
json_jobs == IF has_jobs THEN Get(json_input, "jobs").a ELSE <<>>
json_shipments ==
  IF has_shipments THEN Get(json_input, "shipments").a ELSE <<>>

\* The number of elements of each array that parse has been through.
VehiclesRead ==
  IF Rank(Position) < 2 THEN 0
  ELSE IF Position = "vehicles" THEN i - 1 ELSE Len(json_vehicles)
JobsRead ==
  IF Rank(Position) < 3 THEN 0
  ELSE IF Position = "jobs" THEN i - 1 ELSE Len(json_jobs)
ShipmentsRead ==
  IF Rank(Position) < 4 THEN 0
  ELSE IF Position = "shipments" THEN i - 1 ELSE Len(json_shipments)

\* max(1, number of windows) of a vehicle object.
Width(v) ==
  IF HasMember(v, "time_windows") /\ Size(Get(v, "time_windows")) > 1
  THEN Size(Get(v, "time_windows"))
  ELSE 1

\* The number of vehicles added for the elements before the k-th.
RECURSIVE Offset(_)
Offset(k) == IF k <= 1 THEN 0 ELSE Offset(k - 1) + Width(json_vehicles[k - 1])

\* The element of `vehicles` that the n-th added vehicle comes from.
SourceOf(n) ==
  CHOOSE k \in 1..VehiclesRead : Offset(k) < n /\ n <= Offset(k + 1)

json_breaks(v) == IF HasMember(v, "breaks") THEN Get(v, "breaks").a ELSE <<>>

\* An array of n uints, and the uints of such an array.
IsUintArray(a, n) ==
  IsArray(a) /\ Size(a) = n /\ \A k \in 1..Size(a) : IsUint(a.a[k])
Uints(a) == [k \in 1..Size(a) |-> a.a[k].n]

\* An amount key that is absent or holds amount_size uints, and the amount
\* it stands for.
AmountWellFormed(o, key) ==
  HasMember(o, key) => IsUintArray(Get(o, key), amount_size)
AmountFor(o, key) ==
  IF HasMember(o, key) THEN Uints(Get(o, key)) ELSE Zeros(amount_size)

\* The key a job's delivery amount is read from.
DeliveryKey(j) ==
  IF HasMember(j, "amount") /\ ~HasMember(j, "pickup")
       /\ ~HasMember(j, "delivery")
  THEN "amount"
  ELSE "delivery"

\* The amount keys parse reads in an element of `vehicles`, `jobs` or
\* `shipments` are all well formed.
VehicleAmountsWellFormed(v) ==
  /\ AmountWellFormed(v, "capacity")
  /\ \A k \in 1..Len(json_breaks(v)) :
       IsObject(json_breaks(v)[k])
         => AmountWellFormed(json_breaks(v)[k], "max_load")
JobAmountsWellFormed(j) ==
  AmountWellFormed(j, "pickup") /\ AmountWellFormed(j, DeliveryKey(j))

\* get_amount on a key of an object: it returns the amount of a well-formed
\* key, of length amount_size, and raises an input error on any other.
GetAmountChecks(o, key) ==
  /\ get_amount(o, key, amount_size).errs =
       IF AmountWellFormed(o, key) THEN {} ELSE {InputException}
  /\ AmountWellFormed(o, key)
       => /\ get_amount(o, key, amount_size).val = AmountFor(o, key)
          /\ Len(get_amount(o, key, amount_size).val) = amount_size

(***************************************************************************)
(* C1: the amount dimension.                                               *)
(***************************************************************************)
\* The dimension is the length of the first vehicle's `capacity` array, 0
\* when the key is absent, not an array or empty.
AmountSizeFromFirstVehicle ==
  Rank(Position) >= 2
    => amount_size =
         IF /\ HasMember(json_vehicles[1], "capacity")
            /\ IsArray(Get(json_vehicles[1], "capacity"))
         THEN Size(Get(json_vehicles[1], "capacity"))
         ELSE 0

\* Every amount held by an added vehicle, break or job has the dimension.
AddedAmountsHaveDimension ==
  /\ \A n \in 1..Len(vehicles) :
       /\ Len(vehicles[n].capacity) = amount_size
       /\ \A k \in 1..Len(vehicles[n].breaks) :
            vehicles[n].breaks[k].max_load.has
              => Len(vehicles[n].breaks[k].max_load.v) = amount_size
  /\ \A n \in 1..Len(jobs) :
       IF jobs[n].type = "SINGLE"
       THEN Len(jobs[n].delivery) = amount_size
              /\ Len(jobs[n].pickup) = amount_size
       ELSE Len(jobs[n].amount) = amount_size

\* No element with an ill-formed amount key is added: parse has failed on
\* it.  On the element parse is at, get_amount raises an input error on each
\* ill-formed amount key.
IllFormedAmountsRejected ==
  /\ \A k \in 1..VehiclesRead : VehicleAmountsWellFormed(json_vehicles[k])
  /\ \A k \in 1..JobsRead : JobAmountsWellFormed(json_jobs[k])
  /\ \A k \in 1..ShipmentsRead : AmountWellFormed(json_shipments[k], "amount")
  /\ pc = "vehicles" /\ IsObject(json_vehicles[i])
       => /\ GetAmountChecks(json_vehicles[i], "capacity")
          /\ \A k \in 1..Len(json_breaks(json_vehicles[i])) :
               IsObject(json_breaks(json_vehicles[i])[k])
                 => GetAmountChecks(json_breaks(json_vehicles[i])[k],
                                    "max_load")
  /\ pc = "jobs" /\ IsObject(json_jobs[i])
       => /\ GetAmountChecks(json_jobs[i], "pickup")
          /\ GetAmountChecks(json_jobs[i], "delivery")
          /\ GetAmountChecks(json_jobs[i], "amount")
  /\ pc = "shipments" /\ IsObject(json_shipments[i])
       => GetAmountChecks(json_shipments[i], "amount")

\* parse has raised on an element that has its id and an ill-formed amount
\* key.
FailedOnIllFormedAmount ==
  /\ pc = "failed"
  /\ \/ /\ Position = "vehicles"
        /\ IdReadable(json_vehicles[i])
        /\ ~VehicleAmountsWellFormed(json_vehicles[i])
     \/ /\ Position = "jobs"
        /\ IdReadable(json_jobs[i])
        /\ ~JobAmountsWellFormed(json_jobs[i])
     \/ /\ Position = "shipments"
        /\ ~Failed(check_shipment(json_shipments[i]))
        /\ ~AmountWellFormed(json_shipments[i], "amount")

\* The exception is an input error.
IllFormedAmountIsInputError ==
  FailedOnIllFormedAmount => err.kind = InputException

\* The exception is an input error, unless another argument of the same
\* constructor call raised first: the `service_per_vehicle_type` of the job,
\* or the `steps` of the vehicle.
IllFormedAmountRaises ==
  FailedOnIllFormedAmount
    => \/ err.kind = InputException
       \/ /\ err.kind = RuntimeError
          /\ Position = "jobs"
          /\ HasMember(json_jobs[i], "service_per_vehicle_type")
       \/ /\ err.kind = Abort
          /\ Position = "vehicles"
          /\ HasMember(json_vehicles[i], "steps")

\* An absent `capacity`, `pickup`, `delivery` or shipment `amount` yields the
\* all-zero amount.
AbsentAmountIsZero ==
  /\ \A n \in 1..Len(vehicles) :
       ~HasMember(json_vehicles[SourceOf(n)], "capacity")
         => vehicles[n].capacity = Zeros(amount_size)
  /\ \A k \in 1..JobsRead :
       /\ ~HasMember(json_jobs[k], "pickup")
            => jobs[k].pickup = Zeros(amount_size)
       /\ ~HasMember(json_jobs[k], DeliveryKey(json_jobs[k]))
            => jobs[k].delivery = Zeros(amount_size)
  /\ \A k \in 1..ShipmentsRead :
       ~HasMember(json_shipments[k], "amount")
         => /\ jobs[JobsRead + 2 * k - 1].amount = Zeros(amount_size)
            /\ jobs[JobsRead + 2 * k].amount = Zeros(amount_size)

\* The breaks of an added vehicle that come from an element of `breaks`
\* without `max_load` all hold max_load.
BreaksWithoutMaxLoadHold(n, max_load) ==
  \A k \in 1..Len(vehicles[n].breaks) :
    (\A b \in 1..Len(json_breaks(json_vehicles[SourceOf(n)])) :
       GetUint64(Get(json_breaks(json_vehicles[SourceOf(n)])[b], "id"))
           = vehicles[n].breaks[k].id
         => ~HasMember(json_breaks(json_vehicles[SourceOf(n)])[b],
                       "max_load"))
      => vehicles[n].breaks[k].max_load = max_load

\* C1 as stated: the amount dimension is the length of the first vehicle's
\* capacity; every amount parsed afterwards has that length or parse fails
\* with an input error; an absent key, `max_load` of a break included,
\* yields the all-zero vector of that length.
C1_AbsentMaxLoadIsZero ==
  /\ AmountSizeFromFirstVehicle
  /\ AddedAmountsHaveDimension
  /\ IllFormedAmountsRejected
  /\ IllFormedAmountIsInputError
  /\ AbsentAmountIsZero
  /\ \A n \in 1..Len(vehicles) :
       BreaksWithoutMaxLoadHold(n, [has |-> TRUE, v |-> Zeros(amount_size)])

\* C1, amended: the amount dimension is the length of the first vehicle's
\* capacity; every amount parsed afterwards has that length or parse fails,
\* get_amount raising an input error; an absent `capacity`, `pickup`,
\* `delivery` or shipment `amount` yields the all-zero vector of that
\* length, and an absent `max_load` yields a break without max_load.
C1_AmountDimension ==
  /\ AmountSizeFromFirstVehicle
  /\ AddedAmountsHaveDimension
  /\ IllFormedAmountsRejected
  /\ IllFormedAmountRaises
  /\ AbsentAmountIsZero
  /\ \A n \in 1..Len(vehicles) : BreaksWithoutMaxLoadHold(n, NoAmount)

\* Two vehicles with capacities of length 2, the first with a break without
\* `max_load`, and a job without `pickup` are added.
C1_Witness ==
  /\ pc = "done"
  /\ amount_size = 2
  /\ Len(vehicles) = 2
  /\ vehicles[2].capacity = <<11, 12>>
  /\ Len(vehicles[1].breaks) = 1
  /\ vehicles[1].breaks[1].max_load = NoAmount
  /\ jobs[1].pickup = <<0, 0>>

(***************************************************************************)
(* C2: the kind of the errors.                                             *)
(***************************************************************************)
\* C2: every schema violation parse detects is raised as an input error,
\* never as another kind and never passed over: whenever parse fails the
\* exception is an InputException, and parse does not end normally on a
\* `matrices` object with a member whose value is not an object.
C2_ViolationsAreInputErrors ==
  /\ pc = "failed" => err.kind = InputException
  /\ pc = "done" /\ HasMember(json_input, "matrices")
       => \A k \in 1..Len(Get(json_input, "matrices").m) :
            IsObject(Get(json_input, "matrices").m[k].value)

(***************************************************************************)
(* C3: the main checks.                                                    *)
(***************************************************************************)
\* A key of the document that holds a nonempty array.
NonEmptyArray(key) ==
  /\ HasMember(json_input, key)
  /\ IsArray(Get(json_input, key))
  /\ Size(Get(json_input, key)) # 0

WithoutKey(o, key) == JObj(SelectSeq(o.m, LAMBDA e : e.name # key))

\* C4: the delivery amount of a job is read from `amount` exactly when the
\* job has `amount` and neither `pickup` nor `delivery`; otherwise it is read
\* from `delivery` (zero when absent) and `amount` has no effect: the job is
\* parsed as the same job without `amount`; the pickup amount is always read
\* from `pickup`.
C4_AmountCompatibility ==
  /\ \A k \in 1..JobsRead :
       /\ jobs[k].delivery =
            IF /\ HasMember(json_jobs[k], "amount")
               /\ ~HasMember(json_jobs[k], "pickup")
               /\ ~HasMember(json_jobs[k], "delivery")
            THEN Uints(Get(json_jobs[k], "amount"))
            ELSE IF HasMember(json_jobs[k], "delivery")
                 THEN Uints(Get(json_jobs[k], "delivery"))
                 ELSE Zeros(amount_size)
       /\ jobs[k].pickup =
            IF HasMember(json_jobs[k], "pickup")
            THEN Uints(Get(json_jobs[k], "pickup"))
            ELSE Zeros(amount_size)
  /\ /\ pc = "jobs"
     /\ IsObject(json_jobs[i])
     /\ HasMember(json_jobs[i], "pickup") \/ HasMember(json_jobs[i], "delivery")
     => get_job(json_jobs[i], amount_size)
          = get_job(WithoutKey(json_jobs[i], "amount"), amount_size)

\* A job with `amount` and `pickup`, and no `delivery`, is added with a zero
\* delivery amount.
C4_Witness ==
  /\ pc = "done"
  /\ Len(jobs) = 1
  /\ HasMember(json_jobs[1], "amount")
  /\ IsUintArray(Get(json_jobs[1], "amount"), 2)
  /\ HasMember(json_jobs[1], "pickup")
  /\ ~HasMember(json_jobs[1], "delivery")
  /\ jobs[1].delivery = <<0, 0>>
  /\ jobs[1].pickup = <<71, 72>>

(***************************************************************************)
(* Time windows of the document against those parse keeps.                 *)
(***************************************************************************)
\* The window of a [start, end] pair of the document.
UserWindow(w) ==
  [start |-> DURATION_FACTOR * w.a[1].n, end |-> DURATION_FACTOR * w.a[2].n]

\* (start, end) of a is lexicographically not greater than that of b.
NotGreater(a, b) ==
  a.start < b.start \/ (a.start = b.start /\ a.end <= b.end)

Ascending(tws) ==
  \A k \in 1..(Len(tws) - 1) : NotGreater(tws[k], tws[k + 1])

\* tws holds the windows of the array a, each as many times.
SameWindows(tws, a) ==
  /\ Len(tws) = Size(a)
  /\ \E p \in Permutations(1..Len(tws)) :
       \A k \in 1..Len(tws) : tws[k] = UserWindow(a.a[p[k]])

\* tws is the list to keep for the object o: nonempty and ascending, the
\* default window alone when o has no `time_windows`, and else the windows
\* of its nonempty `time_windows` array.
TimeWindowsOf(tws, o) ==
  /\ Len(tws) >= 1
  /\ Ascending(tws)
  /\ IF HasMember(o, "time_windows")
     THEN /\ IsArray(Get(o, "time_windows"))
          /\ Size(Get(o, "time_windows")) >= 1
          /\ SameWindows(tws, Get(o, "time_windows"))
     ELSE tws = <<DefaultTimeWindow>>

(***************************************************************************)
(* C5: the expansion of a vehicle with several time windows.               *)
(***************************************************************************)
\* C5: an element of `vehicles` with a `time_windows` array of n windows
\* yields n vehicles added one after the other, with its id and equal in
\* every field but the window, the c-th holding the c-th window of the
\* sorted list; an element without `time_windows` yields one vehicle, with
\* its `time_window` or the default window.  The number of vehicles added is
\* the sum over the elements of max(1, number of windows).
C5_VehicleExpansion ==
  /\ Len(vehicles) = Offset(VehiclesRead + 1)
  /\ \A k \in 1..VehiclesRead :
       IF HasMember(json_vehicles[k], "time_windows")
       THEN /\ Width(json_vehicles[k]) =
                 Size(Get(json_vehicles[k], "time_windows"))
            /\ TimeWindowsOf([c \in 1..Width(json_vehicles[k]) |->
                                vehicles[Offset(k) + c].tw],
                             json_vehicles[k])
            /\ \A c \in 1..Width(json_vehicles[k]) :
                 /\ vehicles[Offset(k) + c].id =
                      GetUint64(Get(json_vehicles[k], "id"))
                 /\ vehicles[Offset(k) + c] =
                      [vehicles[Offset(k) + 1]
                         EXCEPT !.tw = vehicles[Offset(k) + c].tw]
       ELSE /\ Width(json_vehicles[k]) = 1
            /\ vehicles[Offset(k) + 1].id =
                 GetUint64(Get(json_vehicles[k], "id"))
            /\ vehicles[Offset(k) + 1].tw =
                 IF HasMember(json_vehicles[k], "time_window")
                 THEN UserWindow(Get(json_vehicles[k], "time_window"))
                 ELSE DefaultTimeWindow

\* Two elements of `vehicles` with two windows each, given out of order,
\* have yielded four vehicles.
C5_Witness ==
  /\ pc = "done"
  /\ Len(json_vehicles) = 2
  /\ Len(vehicles) = 4
  /\ ~NotGreater(UserWindow(Get(json_vehicles[1], "time_windows").a[1]),
                 UserWindow(Get(json_vehicles[1], "time_windows").a[2]))
  /\ vehicles[1].id = vehicles[2].id
  /\ vehicles[3].id = vehicles[4].id
  /\ vehicles[1].id # vehicles[3].id
  /\ vehicles[3].tw # vehicles[4].tw

(***************************************************************************)
(* C6: the two tasks of a shipment.                                        *)
(***************************************************************************)
\* A shipment whose `pickup` and `delivery` objects are without `amount`,
\* `skills` and `priority`.
WithoutInnerKeys(s) ==
  JObj([k \in 1..Len(s.m) |->
          IF s.m[k].name \in {"pickup", "delivery"}
          THEN Mem(s.m[k].name,
                   WithoutKey(WithoutKey(WithoutKey(s.m[k].value, "amount"),
                                         "skills"),
                              "priority"))
          ELSE s.m[k]])

\* The tasks added for the k-th shipment.
PickupOf(k) == jobs[JobsRead + 2 * k - 1]
DeliveryOf(k) == jobs[JobsRead + 2 * k]

\* C6: the pickup and the delivery of a shipment hold the amount, the skills
\* and the priority of the shipment object; `amount`, `skills` and
\* `priority` inside `pickup` or `delivery` have no effect: the shipment is
\* parsed as the same shipment without them; the two tasks are typed PICKUP
\* and DELIVERY and are added together.
C6_ShipmentPairs ==
  /\ Len(jobs) = JobsRead + 2 * ShipmentsRead
  /\ \A k \in 1..ShipmentsRead :
       /\ PickupOf(k).type = "PICKUP"
       /\ DeliveryOf(k).type = "DELIVERY"
       /\ PickupOf(k).id = GetUint64(Get(Get(json_shipments[k], "pickup"), "id"))
       /\ DeliveryOf(k).id =
            GetUint64(Get(Get(json_shipments[k], "delivery"), "id"))
       /\ PickupOf(k).amount = AmountFor(json_shipments[k], "amount")
       /\ DeliveryOf(k).amount = AmountFor(json_shipments[k], "amount")
       /\ PickupOf(k).skills =
            IF HasMember(json_shipments[k], "skills")
            THEN {Get(json_shipments[k], "skills").a[n].n :
                    n \in 1..Size(Get(json_shipments[k], "skills"))}
            ELSE {}
       /\ DeliveryOf(k).skills = PickupOf(k).skills
       /\ PickupOf(k).priority =
            IF HasMember(json_shipments[k], "priority")
            THEN Get(json_shipments[k], "priority").n
            ELSE 0
       /\ DeliveryOf(k).priority = PickupOf(k).priority
  /\ pc = "shipments" /\ ~Failed(check_shipment(json_shipments[i]))
       => get_shipment(json_shipments[i], amount_size)
            = get_shipment(WithoutInnerKeys(json_shipments[i]), amount_size)

\* A shipment with amount, skills and priority, whose `pickup` and `delivery`
\* hold other values under these keys, is added.
C6_Witness ==
  /\ pc = "done"
  /\ Len(jobs) = 2
  /\ HasMember(Get(json_shipments[1], "pickup"), "priority")
  /\ HasMember(Get(json_shipments[1], "delivery"), "amount")
  /\ \A n \in 1..2 :
       /\ jobs[n].amount = <<41>>
       /\ jobs[n].skills = {1, 2}
       /\ jobs[n].priority = 7

(***************************************************************************)
(* Matrices of the document against those parse has set.                   *)
(***************************************************************************)
\* A square matrix of uints, and its entries.
IsSquareUintMatrix(m) ==
  IsArray(m) /\ \A r \in 1..Size(m) : IsUintArray(m.a[r], Size(m))
UintMatrix(m) == [r \in 1..Size(m) |-> Uints(m.a[r])]

MatrixKeys == <<"durations", "distances", "costs">>
\* The matrices set so far under the q-th key.
MatricesSet(q) ==
  IF q = 1 THEN durations_matrices
  ELSE IF q = 2 THEN distances_matrices ELSE costs_matrices

(***************************************************************************)
(* C7: the deprecated `matrix` key.                                        *)
(***************************************************************************)
\* What `matrices` = {"car": {"durations": M}} sets, M being the value of
\* `matrix`.
MatrixAsMatrices ==
  matrices_entry([durations |-> {}, distances |-> {}, costs |-> {}],
                 "car",
                 JObj(<<Mem("durations", Get(json_input, "matrix"))>>))

\* parse ends on the matrices as it does with `matrices` =
\* {"car": {"durations": M}}: the durations matrix of "car" is M and no
\* other matrix is set, or M is refused.
MatrixReadAsMatrices ==
  /\ pc = "done"
       => /\ ~MatrixAsMatrices.thrown
          /\ durations_matrices = MatrixAsMatrices.durations
          /\ durations_matrices =
               {[profile |-> "car",
                 matrix |-> UintMatrix(Get(json_input, "matrix"))]}
          /\ distances_matrices = {}
          /\ costs_matrices = {}
  /\ pc = "failed" /\ Rank(Position) = 5
       => /\ MatrixAsMatrices.thrown
          /\ err.kind = InputException
          /\ durations_matrices = MatrixAsMatrices.durations
          /\ distances_matrices = {}
          /\ costs_matrices = {}

\* C7 as stated: every input with a `matrix` key M, one with a `matrices`
\* key included, leaves the matrices as `matrices` =
\* {"car": {"durations": M}} does.
C7_MatrixAlwaysRead ==
  HasMember(json_input, "matrix") => MatrixReadAsMatrices

\* C7, amended: an input with a `matrix` key M and no `matrices` key leaves
\* the matrices as `matrices` = {"car": {"durations": M}} does; in an input
\* with a `matrices` key, `matrix` is not read.
C7_MatrixWithoutMatrices ==
  /\ HasMember(json_input, "matrix") /\ ~HasMember(json_input, "matrices")
       => MatrixReadAsMatrices
  /\ HasMember(json_input, "matrices") => Position # "matrix"

\* parse has ended on an input with a `matrix` of two rows and no
\* `matrices`, the durations of "car" set.
C7_Witness ==
  /\ pc = "done"
  /\ HasMember(json_input, "matrix")
  /\ ~HasMember(json_input, "matrices")
  /\ durations_matrices =
       {[profile |-> "car", matrix |-> <<<<11, 12>>, <<21, 22>>>>]}

(***************************************************************************)
(* C8: get_matrix.                                                         *)
(***************************************************************************)
\* get_matrix returns the entries of a square matrix of uints and raises an
\* input error on any other value.
GetMatrixChecks(m) ==
  /\ get_matrix(m).errs =
       IF IsSquareUintMatrix(m) THEN {} ELSE {InputException}
  /\ IsSquareUintMatrix(m)
       => /\ get_matrix(m).val = UintMatrix(m)
          /\ Len(get_matrix(m).val) = Size(m)
          /\ \A r \in 1..Size(m) :
               /\ Len(get_matrix(m).val[r]) = Size(m)
               /\ \A c \in 1..Size(m) :
                    get_matrix(m).val[r][c] = m.a[r].a[c].n

\* The members of `matrices`, and the number parse has been through.
Entries ==
  IF HasMember(json_input, "matrices") /\ IsObject(Get(json_input, "matrices"))
  THEN Get(json_input, "matrices").m
  ELSE <<>>
EntriesRead ==
  IF Position = "matrices_entry" THEN i - 1
  ELSE IF pc = "done" THEN Len(Entries) ELSE 0

\* The k-th member gives a matrix under the q-th key.
Gives(k, q) ==
  IsObject(Entries[k].value) /\ HasMember(Entries[k].value, MatrixKeys[q])

\* The matrices under the q-th key after the first n members: for each
\* profile the matrix of the last member that gives one.
MatricesAfter(q, n) ==
  {[profile |-> Entries[k].name,
    matrix |-> UintMatrix(Get(Entries[k].value, MatrixKeys[q]))] :
     k \in {k \in 1..n :
              /\ Gives(k, q)
              /\ \A l \in (k + 1)..n :
                   ~(Gives(l, q) /\ Entries[l].name = Entries[k].name)}}

\* The k-th member gives under the q-th key a value that is no square
\* matrix of uints.
IllFormed(k, q) ==
  Gives(k, q) /\ ~IsSquareUintMatrix(Get(Entries[k].value, MatrixKeys[q]))

\* C8: get_matrix returns the n-by-n matrix of the entries of an array of n
\* rows of n uints each, and raises an input error on a value that is no
\* array, has a row of another length or an entry that is no uint; the
\* matrices set are those of the well-formed values, and a value that is
\* refused sets no matrix for its key.
C8_SquareMatrices ==
  /\ pc = "matrix" => GetMatrixChecks(Get(json_input, "matrix"))
  /\ pc = "matrices_entry"
       => \A q \in 1..3 :
            Gives(i, q)
              => GetMatrixChecks(Get(Entries[i].value, MatrixKeys[q]))
  /\ Position = "matrix"
       => /\ pc = "failed"
               => /\ ~IsSquareUintMatrix(Get(json_input, "matrix"))
                  /\ err.kind = InputException
          /\ \A q \in 1..3 : MatricesSet(q) = {}
  /\ pc = "done" /\ ~HasMember(json_input, "matrices")
       /\ HasMember(json_input, "matrix")
       => /\ IsSquareUintMatrix(Get(json_input, "matrix"))
          /\ durations_matrices =
               {[profile |-> DEFAULT_PROFILE,
                 matrix |-> UintMatrix(Get(json_input, "matrix"))]}
  /\ \A k \in 1..EntriesRead : \A q \in 1..3 : ~IllFormed(k, q)
  /\ Position = "matrices_entry" \/ (pc = "done" /\ Entries # <<>>)
       => IF pc = "failed"
          THEN /\ err.kind = InputException
               /\ \E q \in 1..3 :
                    /\ IllFormed(i, q)
                    /\ \A b \in 1..(q - 1) :
                         /\ ~IllFormed(i, b)
                         /\ MatricesSet(b) = MatricesAfter(b, i)
                    /\ \A b \in q..3 : MatricesSet(b) = MatricesAfter(b, i - 1)
          ELSE \A q \in 1..3 : MatricesSet(q) = MatricesAfter(q, EntriesRead)

\* parse has refused a `matrix` of two rows of uints, one of them of another
\* length, and no matrix is set.
C8_Witness ==
  /\ pc = "failed"
  /\ err = [kind |-> InputException, at |-> "matrix"]
  /\ IsArray(Get(json_input, "matrix"))
  /\ Size(Get(json_input, "matrix")) = 2
  /\ \A r \in 1..2 :
       /\ IsArray(Get(json_input, "matrix").a[r])
       /\ \A c \in 1..Size(Get(json_input, "matrix").a[r]) :
            IsUint(Get(json_input, "matrix").a[r].a[c])
  /\ Size(Get(json_input, "matrix").a[1]) = 2
  /\ Size(Get(json_input, "matrix").a[2]) = 1
  /\ durations_matrices = {}

(***************************************************************************)
(* C9: the time windows of a job, a pickup, a delivery or a break.         *)
(***************************************************************************)
\* get_time_windows on an object that has its id.
GetTimeWindowsChecks(o) ==
  /\ get_time_windows(o).errs \subseteq {InputException}
  /\ ~HasMember(o, "time_windows")
       => get_time_windows(o) = Ok(<<DefaultTimeWindow>>)
  /\ /\ HasMember(o, "time_windows")
     /\ \/ ~IsArray(Get(o, "time_windows"))
        \/ Size(Get(o, "time_windows")) = 0
     => get_time_windows(o).errs = {InputException}
  /\ get_time_windows(o).errs = {}
       => TimeWindowsOf(get_time_windows(o).val, o)

\* The elements of `breaks` of the n-th added vehicle that have the id of
\* its k-th break.
SourcesOfBreak(n, k) ==
  {b \in 1..Len(json_breaks(json_vehicles[SourceOf(n)])) :
     GetUint64(Get(json_breaks(json_vehicles[SourceOf(n)])[b], "id"))
       = vehicles[n].breaks[k].id}

\* C9: the time windows of every job, pickup, delivery and break are a
\* nonempty list in ascending order: the default window alone when the
\* object has no `time_windows`, and else the windows of its `time_windows`
\* array, which is nonempty; get_time_windows raises an input error on a
\* `time_windows` that is empty or no array.
C9_TimeWindows ==
  /\ \A k \in 1..JobsRead : TimeWindowsOf(jobs[k].tws, json_jobs[k])
  /\ Len(jobs) = JobsRead + 2 * ShipmentsRead
  /\ \A k \in 1..ShipmentsRead :
       /\ TimeWindowsOf(PickupOf(k).tws, Get(json_shipments[k], "pickup"))
       /\ TimeWindowsOf(DeliveryOf(k).tws, Get(json_shipments[k], "delivery"))
  /\ \A n \in 1..Len(vehicles) :
       \A k \in 1..Len(vehicles[n].breaks) :
         \E b \in SourcesOfBreak(n, k) :
           TimeWindowsOf(vehicles[n].breaks[k].tws,
                         json_breaks(json_vehicles[SourceOf(n)])[b])
  /\ pc = "jobs" /\ IdReadable(json_jobs[i])
       => GetTimeWindowsChecks(json_jobs[i])
  /\ pc = "shipments" /\ ~Failed(check_shipment(json_shipments[i]))
       => \A key \in {"pickup", "delivery"} :
            IdReadable(Get(json_shipments[i], key))
              => GetTimeWindowsChecks(Get(json_shipments[i], key))
  /\ pc = "vehicles" /\ IsObject(json_vehicles[i])
       => \A b \in 1..Len(json_breaks(json_vehicles[i])) :
            IdReadable(json_breaks(json_vehicles[i])[b])
              => GetTimeWindowsChecks(json_breaks(json_vehicles[i])[b])

\* A job whose two windows are given in descending order is added with its
\* windows in ascending order.
C9_Witness ==
  /\ pc = "done"
  /\ Len(jobs) = 1
  /\ HasMember(json_jobs[1], "time_windows")
  /\ Size(Get(json_jobs[1], "time_windows")) = 2
  /\ ~NotGreater(UserWindow(Get(json_jobs[1], "time_windows").a[1]),
                 UserWindow(Get(json_jobs[1], "time_windows").a[2]))
  /\ jobs[1].tws[1] = UserWindow(Get(json_jobs[1], "time_windows").a[2])
  /\ jobs[1].tws[2] = UserWindow(Get(json_jobs[1], "time_windows").a[1])

(***************************************************************************)
(* C10: the breaks of a vehicle.                                           *)
(***************************************************************************)
\* The break b is the one parsed from the element e of `breaks`.
IsBreakOf(b, e) ==
  /\ b.id = GetUint64(Get(e, "id"))
  /\ TimeWindowsOf(b.tws, e)
  /\ b.service = IF HasMember(e, "service") THEN Get(e, "service").n ELSE 0
  /\ b.description =
       IF HasMember(e, "description") THEN Get(e, "description").s ELSE ""
  /\ b.max_load =
       IF HasMember(e, "max_load")
       THEN [has |-> TRUE, v |-> Uints(Get(e, "max_load"))]
       ELSE NoAmount

\* breaks is a permutation of the breaks of the elements of the list es.
BreaksOf(breaks, es) ==
  /\ Len(breaks) = Len(es)
  /\ \/ Len(breaks) = 0
     \/ \E p \in Permutations(1..Len(breaks)) :
          \A k \in 1..Len(breaks) : IsBreakOf(breaks[k], es[p[k]])

\* C10: in the break list of every added vehicle the (start, end) of the
\* first window of a break is lexicographically not greater than that of the
\* next break, and the list is a permutation of the breaks of the `breaks`
\* array of the vehicle, empty when the key is absent.
C10_BreaksSorted ==
  \A n \in 1..Len(vehicles) :
    /\ \A k \in 1..(Len(vehicles[n].breaks) - 1) :
         NotGreater(vehicles[n].breaks[k].tws[1],
                    vehicles[n].breaks[k + 1].tws[1])
    /\ BreaksOf(vehicles[n].breaks, json_breaks(json_vehicles[SourceOf(n)]))
    /\ ~HasMember(json_vehicles[SourceOf(n)], "breaks")
         => vehicles[n].breaks = <<>>

\* A vehicle is added whose two breaks start together and are given with the
\* later end first: the break given second comes first.
C10_Witness ==
  /\ pc = "done"
  /\ Len(vehicles) >= 1
  /\ Len(vehicles[1].breaks) = 2
  /\ vehicles[1].breaks[1].id = [hi |-> 0, lo |-> 2]
  /\ vehicles[1].breaks[2].id = [hi |-> 0, lo |-> 1]
  /\ vehicles[1].breaks[1].tws[1].start = vehicles[1].breaks[2].tws[1].start
  /\ vehicles[1].breaks[1].tws[1].end < vehicles[1].breaks[2].tws[1].end

(***************************************************************************)
(* C11: the forced steps of a vehicle.                                     *)
(***************************************************************************)
\* The elements of the `steps` array of a vehicle object.
json_steps(v) ==
  IF HasMember(v, "steps") /\ IsArray(Get(v, "steps"))
  THEN Get(v, "steps").a
  ELSE <<>>

\* The `type` of an element of `steps`, "" when it has none.
StepTypeOf(e) ==
  IF IsObject(e) /\ HasMember(e, "type") /\ IsString(Get(e, "type"))
  THEN Get(e, "type").s
  ELSE ""

\* The types of steps, those that come without an `id` and those that
\* require one.
StepTypesWithoutId == {"start", "end"}
StepTypesWithId == {"job", "pickup", "delivery", "break"}

\* The element has one of the six types, and a uint64 `id` where its type
\* requires one.
StepTypeAccepted(e) ==
  \/ StepTypeOf(e) \in StepTypesWithoutId
  \/ /\ StepTypeOf(e) \in StepTypesWithId
     /\ HasMember(e, "id")
     /\ IsUint64(Get(e, "id"))

\* The forced step s is the one of the element e.
IsStepOf(s, e) ==
  /\ StepTypeAccepted(e)
  /\ s.step_type = CASE StepTypeOf(e) = "start" -> "START"
                      [] StepTypeOf(e) = "end" -> "END"
                      [] StepTypeOf(e) = "break" -> "BREAK"
                      [] OTHER -> "JOB"
  /\ s.job_type = CASE StepTypeOf(e) = "job" -> "SINGLE"
                     [] StepTypeOf(e) = "pickup" -> "PICKUP"
                     [] StepTypeOf(e) = "delivery" -> "DELIVERY"
                     [] OTHER -> ""
  /\ s.id = IF StepTypeOf(e) \in StepTypesWithId
            THEN [has |-> TRUE, v |-> GetUint64(Get(e, "id"))]
            ELSE NoId

\* get_vehicle_steps on a vehicle object: a list it returns has one step per
\* element of `steps`, in order, each of an accepted type; an element of
\* another type, or of none, makes the call raise an input error.
GetVehicleStepsChecks(v) ==
  /\ get_vehicle_steps(v).errs = {}
       => /\ Len(get_vehicle_steps(v).val) = Len(json_steps(v))
          /\ \A k \in 1..Len(json_steps(v)) :
               IsStepOf(get_vehicle_steps(v).val[k], json_steps(v)[k])
  /\ (\E k \in 1..Len(json_steps(v)) : ~StepTypeAccepted(json_steps(v)[k]))
       => get_vehicle_steps(v).errs = {InputException}

\* C11: for the vehicle parse is reading, get_vehicle_steps returns one
\* forced step per element of `steps`, in input order, of the type and id of
\* the element; it raises an input error, and nothing else, when an element
\* has a type outside start, end, job, pickup, delivery, break, or no type,
\* or lacks the uint64 id its type requires; and every vehicle parse has
\* added carries the steps of the elements of its `steps` array.
C11_StepsByType ==
  /\ pc = "vehicles" /\ IdReadable(json_vehicles[i])
       => GetVehicleStepsChecks(json_vehicles[i])
  /\ \A n \in 1..Len(vehicles) :
       /\ Len(vehicles[n].steps) = Len(json_steps(json_vehicles[SourceOf(n)]))
       /\ \A k \in 1..Len(vehicles[n].steps) :
            IsStepOf(vehicles[n].steps[k],
                     json_steps(json_vehicles[SourceOf(n)])[k])

\* C11, for the elements of `steps` that are objects: the same statement
\* when every element of the array is a JSON object.
C11_ObjectSteps ==
  /\ pc = "vehicles" /\ IdReadable(json_vehicles[i])
       /\ (\A k \in 1..Len(json_steps(json_vehicles[i])) :
             IsObject(json_steps(json_vehicles[i])[k]))
       => GetVehicleStepsChecks(json_vehicles[i])
  /\ \A n \in 1..Len(vehicles) :
       /\ Len(vehicles[n].steps) = Len(json_steps(json_vehicles[SourceOf(n)]))
       /\ \A k \in 1..Len(vehicles[n].steps) :
            IsStepOf(vehicles[n].steps[k],
                     json_steps(json_vehicles[SourceOf(n)])[k])

\* A vehicle is added with the four steps start, job, break, end of its
\* `steps` array, in that order.
C11_Witness ==
  /\ pc = "done"
  /\ Len(vehicles) = 2
  /\ Len(vehicles[2].steps) = 4
  /\ vehicles[2].steps[1].step_type = "START"
  /\ vehicles[2].steps[1].id = NoId
  /\ vehicles[2].steps[2].job_type = "SINGLE"
  /\ vehicles[2].steps[2].id = [has |-> TRUE, v |-> [hi |-> 0, lo |-> 11]]
  /\ vehicles[2].steps[3].step_type = "BREAK"
  /\ vehicles[2].steps[4].step_type = "END"

\* parse is reading a vehicle whose `steps` array holds an element that is
\* not an object.
C11_NonObjectStep ==
  /\ pc = "vehicles" /\ IdReadable(json_vehicles[i])
  /\ \E k \in 1..Len(json_steps(json_vehicles[i])) :
       ~IsObject(json_steps(json_vehicles[i])[k])

(***************************************************************************)
(* Computations on scaled values: a user value goes through the scaling    *)
(* functions of typedefs.h, through the cost of a travel for a vehicle, or *)
(* into a sum of costs.                                                    *)
(***************************************************************************)
\* Largest number of infinite costs summed.
MaxSummed == 8

\* The explored user values, over the whole range of uint32_t.
HighHalves == {0, 1, 32767, 32768, 49151, 65535}
LowHalves == {0, 1, 99, 100, 3599, 3600, 65533, 65535}
UserValues == {U32(hi, lo) : hi \in HighHalves, lo \in LowHalves}

\* The explored `costs` of a vehicle, and the metres of a travel.
CostsValues ==
  {JObj(<<>>),
   JObj(<<Mem("fixed", JNum(5))>>),
   JObj(<<Mem("per_hour", JNum(7200))>>),
   JObj(<<Mem("per_km", JNum(7))>>),
   JObj(<<Mem("fixed", JNum(5)), Mem("per_km", JNum(2))>>),
   JObj(<<Mem("fixed", JNum(1)), Mem("per_hour", JNum(3600)),
          Mem("per_km", JNum(3))>>),
   JNum(0),
   JObj(<<Mem("per_km", NotUint)>>)}
CostsVehicles == {JObj(Id(1) \o c) : c \in Optional("costs", CostsValues)}
Metres == {0, 1000}

\* The cost of a travel for a vehicle, on internal values.
cost(c, duration, distance) ==
  WideAdd(WideMul(Wide(c.per_hour), duration),
          WideMul(Wide(c.per_km), distance))

\* No input is parsed while values are scaled.
NoInput ==
  /\ json_input = JNull
  /\ pc = "idle"
  /\ err = NoError
  /\ i = 1
  /\ has_jobs = FALSE
  /\ has_shipments = FALSE
  /\ amount_size = 0
  /\ vehicles = <<>>
  /\ jobs = <<>>
  /\ durations_matrices = {}
  /\ distances_matrices = {}
  /\ costs_matrices = {}

ScalingInit ==
  /\ NoInput
  /\ NoSolution
  /\ calls = <<>>
  /\ user \in UserValues
  /\ internal = WideZero
  /\ restored = NoResult
  /\ vehicle_json = JNull
  /\ vehicle_costs = NoCosts
  /\ metres = 0
  /\ count = 0
  /\ total = WideZero

ScaleFromUserDuration ==
  /\ calls = <<>>
  /\ internal' = scale_from_user_duration(user)
  /\ calls' = <<"scale_from_user_duration">>
  /\ UNCHANGED <<user, restored, vehicle_json, vehicle_costs, metres, count,
                 total>>
  /\ UNCHANGED <<input_vars, solution_vars>>

ScaleToUserDuration ==
  /\ calls = <<"scale_from_user_duration">>
  /\ restored' = scale_to_user_duration(internal)
  /\ calls' = Append(calls, "scale_to_user_duration")
  /\ UNCHANGED <<user, internal, vehicle_json, vehicle_costs, metres, count,
                 total>>
  /\ UNCHANGED <<input_vars, solution_vars>>

ScaleFromUserCost ==
  /\ calls = <<>>
  /\ internal' = scale_from_user_cost(user)
  /\ calls' = <<"scale_from_user_cost">>
  /\ UNCHANGED <<user, restored, vehicle_json, vehicle_costs, metres, count,
                 total>>
  /\ UNCHANGED <<input_vars, solution_vars>>

\* The costs of a vehicle are read, or refused with an input error.
GetVehicleCosts ==
  /\ calls = <<"scale_from_user_duration">>
  /\ \E v \in CostsVehicles :
       /\ vehicle_json' = v
       /\ vehicle_costs' = IF Failed(get_vehicle_costs(v)) THEN NoCosts
                           ELSE get_vehicle_costs(v).val
       /\ calls' = Append(calls, IF Failed(get_vehicle_costs(v))
                                 THEN "InputException"
                                 ELSE "get_vehicle_costs")
  /\ UNCHANGED <<user, internal, restored, metres, count, total>>
  /\ UNCHANGED <<input_vars, solution_vars>>

\* The cost, for that vehicle, of a travel that lasts `user` seconds and is
\* m metres long.
EvalCost ==
  /\ calls = <<"scale_from_user_duration", "get_vehicle_costs">>
  /\ \E m \in Metres :
       /\ metres' = m
       /\ internal' = cost(vehicle_costs, internal,
                           WideMul(Wide(DISTANCE_FACTOR), Wide(m)))
  /\ calls' = Append(calls, "cost")
  /\ UNCHANGED <<user, restored, vehicle_json, vehicle_costs, count, total>>
  /\ UNCHANGED <<input_vars, solution_vars>>

ScaleToUserCost ==
  /\ calls \in {<<"scale_from_user_cost">>,
                <<"scale_from_user_duration", "get_vehicle_costs", "cost">>}
  /\ restored' = scale_to_user_cost(internal)
  /\ calls' = Append(calls, "scale_to_user_cost")
  /\ UNCHANGED <<user, internal, vehicle_json, vehicle_costs, metres, count,
                 total>>
  /\ UNCHANGED <<input_vars, solution_vars>>

\* One more infinite cost goes into the sum, alone or with the finite cost
\* of the user value.
SumCosts ==
  /\ calls \in {<<"scale_from_user_cost">>, <<"scale_from_user_cost", "sum">>}
  /\ count < MaxSummed
  /\ \E finite \in {WideZero, internal} :
       total' = WideAdd(total,
                        WideAdd(scale_from_user_cost(INFINITE_USER_COST),
                                finite))
  /\ count' = count + 1
  /\ calls' = <<"scale_from_user_cost", "sum">>
  /\ UNCHANGED <<user, internal, restored, vehicle_json, vehicle_costs, metres>>
  /\ UNCHANGED <<input_vars, solution_vars>>

ScalingNext ==
  \/ ScaleFromUserDuration
  \/ ScaleToUserDuration
  \/ ScaleFromUserCost
  \/ GetVehicleCosts
  \/ EvalCost
  \/ ScaleToUserCost
  \/ SumCosts

ScalingSpec == ScalingInit /\ [][ScalingNext]_vars

\* n times x for a small integer n, by doubling and adding.
Double(x) == WideAdd(x, x)
RECURSIVE Times(_, _)
Times(n, x) ==
  IF n = 0 THEN WideZero
  ELSE IF n % 2 = 1 THEN WideAdd(x, Double(Times(n \div 2, x)))
  ELSE Double(Times(n \div 2, x))

(***************************************************************************)
(* C12: scaling is exact and reversible.                                   *)
(***************************************************************************)
\* C12: for every user duration d of the uint32_t range
\* scale_from_user_duration(d) is 100 * d and scale_to_user_duration gives d
\* back; for every user cost c of that range scale_from_user_cost(c) is
\* 100 * 3600 * c and scale_to_user_cost gives c back; both scaled values
\* are non-negative int64_t values, and the assertions of the scale_to_
\* functions hold on them.
C12_ScalingExact ==
  /\ calls # <<>> /\ calls[1] = "scale_from_user_duration" /\ Len(calls) = 1
       => /\ internal = Times(100, user)
          /\ InInt64(internal)
  /\ calls = <<"scale_from_user_duration", "scale_to_user_duration">>
       => /\ internal = Times(100, user)
          /\ restored.assertion
          /\ restored.val = user
  /\ calls # <<>> /\ calls[1] = "scale_from_user_cost"
       => /\ internal = Times(100, Times(3600, user))
          /\ InInt64(internal)
  /\ calls = <<"scale_from_user_cost", "scale_to_user_cost">>
       => /\ restored.assertion
          /\ restored.val = user

\* The largest user cost is scaled to 360000 * (2^32 - 1), which is
\* 1546188226200000, and scaled back to itself.
C12_Witness ==
  /\ calls = <<"scale_from_user_cost", "scale_to_user_cost">>
  /\ user = UINT32_MAX
  /\ internal = <<192, 129, 250, 255, 63, 126, 5, 0, 0, 0, 0, 0>>
  /\ restored.val = UINT32_MAX

(***************************************************************************)
(* C13: the default costs of a vehicle.                                    *)
(***************************************************************************)
\* The value of a key of the `costs` object of a vehicle, d when the vehicle
\* has no `costs` or its `costs` has no such key.
CostsKey(v, key, d) ==
  IF HasMember(v, "costs") /\ HasMember(Get(v, "costs"), key)
  THEN Get(Get(v, "costs"), key).n
  ELSE d

\* C13: a vehicle without `costs` gets fixed 0, per_hour 3600 and per_km 0,
\* and a key missing in a `costs` object gets its default whatever the other
\* keys; for such a vehicle without `costs` the cost per_hour * duration +
\* per_km * distance of a travel of d user seconds, once scaled back by
\* scale_to_user_cost, is d, for every d of the uint32_t range; and at
\* per_hour 3600 and per_km k, a travel of 1000 metres, scaled by
\* DISTANCE_FACTOR, costs scale_from_user_cost(k) more than the same travel
\* of no length, which is k user cost units.
C13_DefaultCosts ==
  /\ Len(calls) >= 2 /\ calls[2] = "get_vehicle_costs"
       => /\ vehicle_costs.fixed = CostsKey(vehicle_json, "fixed", 0)
          /\ vehicle_costs.per_hour = CostsKey(vehicle_json, "per_hour", 3600)
          /\ vehicle_costs.per_km = CostsKey(vehicle_json, "per_km", 0)
  /\ Len(calls) = 4 /\ calls[3] = "cost" /\ ~HasMember(vehicle_json, "costs")
       => /\ InInt64(internal)
          /\ restored.assertion
          /\ restored.val = user
  /\ Len(calls) >= 3 /\ calls[3] = "cost" /\ vehicle_costs.per_hour = 3600
       => /\ metres = 0 => internal = Times(100, Times(3600, user))
          /\ metres = 1000
               => internal =
                    WideAdd(Times(100, Times(3600, user)),
                            Times(100, Times(3600, Wide(vehicle_costs.per_km))))
  /\ Len(calls) = 4 /\ calls[3] = "cost" /\ vehicle_costs.per_hour = 3600
       /\ metres = 1000 /\ user = WideZero
       => restored.val = Wide(vehicle_costs.per_km)

\* The cost of the longest travel, 2^32 - 1 seconds, for a vehicle without
\* `costs` is scaled back to 2^32 - 1.
C13_Witness ==
  /\ calls = <<"scale_from_user_duration", "get_vehicle_costs", "cost",
               "scale_to_user_cost">>
  /\ ~HasMember(vehicle_json, "costs")
  /\ vehicle_costs = [fixed |-> 0, per_hour |-> 3600, per_km |-> 0]
  /\ user = UINT32_MAX
  /\ restored.val = UINT32_MAX

IndexKept(loc, o, key) ==
  HasMember(o, key)
    => loc.has /\ loc.index.has /\ loc.index.v = Get(o, key).n

\* The object a task comes from: the job, or the pickup or delivery of the
\* shipment, that the n-th task was built from.
TaskSource(n) ==
  IF n <= JobsRead /\ n <= Len(json_jobs) /\ jobs[n].type = "SINGLE"
  THEN json_jobs[n]
  ELSE Get(json_shipments[(n - Len(json_jobs) + 1) \div 2],
           IF jobs[n].type = "PICKUP" THEN "pickup" ELSE "delivery")

\* C16: the index stored in the location of every added task is the
\* `location_index` of its object, and the indices stored in the start and
\* the end of every added vehicle are its `start_index` and `end_index`,
\* for every accepted value, 65536 and above included.
C16_IndexStoredUnchanged ==
  /\ \A n \in 1..Len(jobs) :
       IndexKept(jobs[n].location, TaskSource(n), "location_index")
  /\ \A n \in 1..Len(vehicles) :
       /\ IndexKept(vehicles[n].start, json_vehicles[SourceOf(n)],
                    "start_index")
       /\ IndexKept(vehicles[n].end, json_vehicles[SourceOf(n)], "end_index")

\* The same for the indices below 2^16: those are stored as given.
C16_SmallIndexStored ==
  /\ \A n \in 1..Len(jobs) :
       /\ HasMember(TaskSource(n), "location_index")
       /\ Get(TaskSource(n), "location_index").n < UINT16_MOD
       => IndexKept(jobs[n].location, TaskSource(n), "location_index")
  /\ \A n \in 1..Len(vehicles) :
       /\ /\ HasMember(json_vehicles[SourceOf(n)], "start_index")
          /\ Get(json_vehicles[SourceOf(n)], "start_index").n < UINT16_MOD
          => IndexKept(vehicles[n].start, json_vehicles[SourceOf(n)],
                       "start_index")
       /\ /\ HasMember(json_vehicles[SourceOf(n)], "end_index")
          /\ Get(json_vehicles[SourceOf(n)], "end_index").n < UINT16_MOD
          => IndexKept(vehicles[n].end, json_vehicles[SourceOf(n)],
                       "end_index")

\* parse ends normally on a document whose vehicle has `start_index` 65543
\* and whose job has `location_index` 65536: the vehicle starts at index 7
\* and the job is at index 0.
C16_IndexWrapped ==
  /\ pc = "done"
  /\ Len(vehicles) = 1 /\ Len(jobs) = 3
  /\ Get(json_vehicles[1], "start_index").n = 65543
  /\ vehicles[1].start.index.v = 7
  /\ Get(json_jobs[1], "location_index").n = 65536
  /\ jobs[1].location.index.v = 0

(***************************************************************************)
(* The solver run that follows parse: a Solution State is seeded, filled   *)
(* by a construction heuristic, then changed by the apply() of the local   *)
(* search operators (OperatorName).  The solver is not part of the sources *)
(* at hand: the moves follow the description of the construction           *)
(* heuristics and of the operators.  Which move is the best, and whether   *)
(* it is feasible, is left open: every move of the shape described can be  *)
(* applied.                                                                *)
(***************************************************************************)
RemoveAt(s, k) == SubSeq(s, 1, k - 1) \o SubSeq(s, k + 1, Len(s))
InsertSeq(s, k, xs) == SubSeq(s, 1, k - 1) \o xs \o SubSeq(s, k, Len(s))
InsertAt(s, k, x) == InsertSeq(s, k, <<x>>)
RemoveSeq(s, k, n) == SubSeq(s, 1, k - 1) \o SubSeq(s, k + n, Len(s))
Reverse(s) == [k \in 1..Len(s) |-> s[Len(s) + 1 - k]]
\* The documents a solver run is followed on: three vehicles, the second
\* and the third with or without forced steps, two jobs and a shipment; and
\* one vehicle and one job with custom matrices.
SolveSteps ==
  {<<>>,
   <<Mem("steps",
         JArr(<<JObj(<<Mem("type", JStr("start"))>>),
                JObj(<<Mem("type", JStr("job")), Mem("id", JNum(11))>>),
                JObj(<<Mem("type", JStr("pickup")), Mem("id", JNum(21))>>),
                JObj(<<Mem("type", JStr("delivery")), Mem("id", JNum(22))>>),
                JObj(<<Mem("type", JStr("end"))>>)>>))>>,
   <<Mem("steps",
         JArr(<<JObj(<<Mem("type", JStr("job")), Mem("id", JNum(11))>>),
                JObj(<<Mem("type", JStr("job")), Mem("id", JNum(11))>>)>>))>>,
   <<Mem("steps",
         JArr(<<JObj(<<Mem("type", JStr("job")), Mem("id", JNum(99))>>)>>))>>}
SolveDocuments ==
  {Document(<<JObj(Id(1)), JObj(Id(2) \o st), JObj(Id(3))>>,
            <<Mem("jobs", JArr(<<BaseJob,
                                 JObj(Id(12) \o Index(1)
                                        \o <<Mem("priority", JNum(5))>>)>>))>>
              \o OneShipment(BaseShipment),
            <<>>) : st \in SolveSteps}
  \union
  {Document(<<JObj(Id(1)),
              JObj(Id(2) \o <<Mem("steps",
                     JArr(<<JObj(<<Mem("type", JStr("job")),
                                   Mem("id", JNum(11))>>)>>))>>)>>,
            OneJob(BaseJob), ms) :
     ms \in {<<Mem("matrix", GoodMatrix(1, 0))>>,
             <<Mem("matrices",
                   JObj(<<Mem("car", JObj(<<Mem("durations",
                                                GoodMatrix(1, 0))>>))>>))>>}}

\* The solver keeps the parsed input as it is.
Solving(next) ==
  /\ pc' = next
  /\ UNCHANGED <<json_input, err, i, has_jobs, has_shipments, amount_size,
                 vehicles, jobs, durations_matrices, distances_matrices,
                 costs_matrices>>
  /\ UNCHANGED scaling_vars

\* A Solution State is made for the parsed input: an empty route per
\* vehicle, every task unassigned.
Seed ==
  /\ pc = "done"
  /\ routes' = [v \in 1..Len(vehicles) |-> <<>>]
  /\ unassigned' = 1..Len(jobs)
  /\ Solving("construction")

\* The ranks of the tasks a forced step of type job, pickup or delivery
\* names.
RanksOf(step) ==
  {r \in 1..Len(jobs) : jobs[r].type = step.job_type /\ jobs[r].id = step.id.v}

\* The steps of a vehicle that name tasks, and the route they give.
TaskSteps(v) == SelectSeq(vehicles[v].steps, LAMBDA st : st.step_type = "JOB")
ForcedRoute(v) ==
  [k \in 1..Len(TaskSteps(v)) |-> CHOOSE r \in RanksOf(TaskSteps(v)[k]) : TRUE]

\* InitRoutes: the forced steps of every vehicle are projected onto its
\* route.  A step that names no task, or a task another step names, ends the
\* run with an input error.
InitRoutes ==
  /\ pc = "construction"
  /\ unassigned = 1..Len(jobs)
  /\ \E v \in 1..Len(vehicles) : Len(vehicles[v].steps) > 0
  /\ IF /\ \A v \in 1..Len(vehicles) : \A k \in 1..Len(TaskSteps(v)) :
             RanksOf(TaskSteps(v)[k]) # {}
        /\ \A v, w \in 1..Len(vehicles) :
             \A k \in 1..Len(TaskSteps(v)) : \A l \in 1..Len(TaskSteps(w)) :
               (v # w \/ k # l)
                 => RanksOf(TaskSteps(v)[k]) # RanksOf(TaskSteps(w)[l])
     THEN /\ routes' = [v \in 1..Len(vehicles) |-> ForcedRoute(v)]
          /\ unassigned' =
               unassigned \ UNION {{ForcedRoute(v)[k] :
                                      k \in 1..Len(TaskSteps(v))} :
                                     v \in 1..Len(vehicles)}
          /\ Solving("local_search")
     ELSE /\ UNCHANGED solution_vars
          /\ pc' = "failed"
          /\ err' = [kind |-> InputException, at |-> pc]
          /\ UNCHANGED <<json_input, i, has_jobs, has_shipments, amount_size,
                         vehicles, jobs, durations_matrices,
                         distances_matrices, costs_matrices>>
          /\ UNCHANGED scaling_vars

\* One iteration of Basic or Dynamic: an unassigned job goes into a route,
\* or an unassigned shipment does, its pickup before its delivery (the
\* delivery of a shipment follows its pickup in `jobs`).
InsertTask ==
  /\ pc = "construction"
  /\ \E r \in unassigned : \E v \in 1..Len(routes) :
       \/ /\ jobs[r].type = "SINGLE"
          /\ \E p \in 1..(Len(routes[v]) + 1) :
               routes' = [routes EXCEPT ![v] = InsertAt(routes[v], p, r)]
          /\ unassigned' = unassigned \ {r}
       \/ /\ jobs[r].type = "PICKUP"
          /\ r + 1 \in unassigned
          /\ \E p \in 1..(Len(routes[v]) + 1) :
               \E q \in (p + 1)..(Len(routes[v]) + 2) :
                 routes' = [routes EXCEPT
                              ![v] = InsertAt(InsertAt(routes[v], p, r),
                                              q, r + 1)]
          /\ unassigned' = unassigned \ {r, r + 1}
  /\ Solving("construction")

\* No insertion is left, or none is wanted: the seed Solution State goes to
\* the local search.
EndConstruction ==
  /\ pc = "construction"
  /\ UNCHANGED solution_vars
  /\ Solving("local_search")

Searching == pc = "local_search" /\ Solving("local_search")

\* The pairs of distinct routes, and a route as a set of positions.
TwoRoutes == {st \in (1..Len(routes)) \X (1..Len(routes)) : st[1] # st[2]}
Steps(v) == 1..Len(routes[v])
Gaps(v) == 1..(Len(routes[v]) + 1)
Pairs(v) == 1..(Len(routes[v]) - 1)
Pair(v, k) == SubSeq(routes[v], k, k + 1)

\* Swap an assigned task with an unassigned one.
UnassignedExchange ==
  /\ \E v \in 1..Len(routes) : \E k \in Steps(v) : \E u \in unassigned :
       \E p \in Steps(v) :
         /\ routes' = [routes EXCEPT
                         ![v] = InsertAt(RemoveAt(routes[v], k), p, u)]
         /\ unassigned' = (unassigned \ {u}) \union {routes[v][k]}
  /\ Searching

\* Swap two segments between routes.
CrossExchange ==
  /\ \E st \in TwoRoutes : \E k \in Pairs(st[1]) : \E l \in Pairs(st[2]) :
       routes' = [routes EXCEPT
                    ![st[1]] = InsertSeq(RemoveSeq(routes[st[1]], k, 2), k,
                                         Pair(st[2], l)),
                    ![st[2]] = InsertSeq(RemoveSeq(routes[st[2]], l, 2), l,
                                         Pair(st[1], k))]
  /\ UNCHANGED unassigned
  /\ Searching

\* Swap a single step with a segment.
MixedExchange ==
  /\ \E st \in TwoRoutes : \E k \in Steps(st[1]) : \E l \in Pairs(st[2]) :
       routes' = [routes EXCEPT
                    ![st[1]] = InsertSeq(RemoveAt(routes[st[1]], k), k,
                                         Pair(st[2], l)),
                    ![st[2]] = InsertAt(RemoveSeq(routes[st[2]], l, 2), l,
                                        routes[st[1]][k])]
  /\ UNCHANGED unassigned
  /\ Searching

\* Swap tails of two routes.
TwoOpt ==
  /\ \E st \in TwoRoutes :
       \E k \in 0..Len(routes[st[1]]) : \E l \in 0..Len(routes[st[2]]) :
         /\ k < Len(routes[st[1]]) \/ l < Len(routes[st[2]])
         /\ routes' = [routes EXCEPT
                         ![st[1]] = SubSeq(routes[st[1]], 1, k)
                                      \o SubSeq(routes[st[2]], l + 1,
                                                Len(routes[st[2]])),
                         ![st[2]] = SubSeq(routes[st[2]], 1, l)
                                      \o SubSeq(routes[st[1]], k + 1,
                                                Len(routes[st[1]]))]
  /\ UNCHANGED unassigned
  /\ Searching

\* Same, reversing one tail.
ReverseTwoOpt ==
  /\ \E st \in TwoRoutes :
       \E k \in 0..Len(routes[st[1]]) : \E l \in 0..Len(routes[st[2]]) :
         /\ k < Len(routes[st[1]]) \/ l > 0
         /\ routes' = [routes EXCEPT
                         ![st[1]] = SubSeq(routes[st[1]], 1, k)
                                      \o Reverse(SubSeq(routes[st[2]], 1, l)),
                         ![st[2]] = Reverse(SubSeq(routes[st[1]], k + 1,
                                                   Len(routes[st[1]])))
                                      \o SubSeq(routes[st[2]], l + 1,
                                                Len(routes[st[2]]))]
  /\ UNCHANGED unassigned
  /\ Searching

\* Move one task to a position of another route.
Relocate ==
  /\ \E st \in TwoRoutes : \E k \in Steps(st[1]) : \E p \in Gaps(st[2]) :
       routes' = [routes EXCEPT
                    ![st[1]] = RemoveAt(routes[st[1]], k),
                    ![st[2]] = InsertAt(routes[st[2]], p, routes[st[1]][k])]
  /\ UNCHANGED unassigned
  /\ Searching

\* Move a 2-step segment to another route, as it is or reversed.
OrOpt ==
  /\ \E st \in TwoRoutes : \E k \in Pairs(st[1]) : \E p \in Gaps(st[2]) :
       \E seg \in {Pair(st[1], k), Reverse(Pair(st[1], k))} :
         routes' = [routes EXCEPT
                      ![st[1]] = RemoveSeq(routes[st[1]], k, 2),
                      ![st[2]] = InsertSeq(routes[st[2]], p, seg)]
  /\ UNCHANGED unassigned
  /\ Searching

\* Swap two single steps in one route.
IntraExchange ==
  /\ \E v \in 1..Len(routes) : \E k \in Steps(v) : \E l \in Steps(v) :
       /\ k < l
       /\ routes' = [routes EXCEPT
                       ![v] = [routes[v] EXCEPT ![k] = routes[v][l],
                                                ![l] = routes[v][k]]]
  /\ UNCHANGED unassigned
  /\ Searching

\* Swap two segments of one route.
IntraCrossExchange ==
  /\ \E v \in 1..Len(routes) : \E k \in Pairs(v) : \E l \in Pairs(v) :
       /\ k + 2 <= l
       /\ routes' = [routes EXCEPT
                       ![v] = SubSeq(routes[v], 1, k - 1) \o Pair(v, l)
                                \o SubSeq(routes[v], k + 2, l - 1)
                                \o Pair(v, k)
                                \o SubSeq(routes[v], l + 2, Len(routes[v]))]
  /\ UNCHANGED unassigned
  /\ Searching

\* Swap a single step with a segment of the same route.
IntraMixedExchange ==
  /\ \E v \in 1..Len(routes) : \E k \in Steps(v) : \E l \in Pairs(v) :
       \/ /\ k < l
          /\ routes' = [routes EXCEPT
                          ![v] = SubSeq(routes[v], 1, k - 1) \o Pair(v, l)
                                   \o SubSeq(routes[v], k + 1, l - 1)
                                   \o <<routes[v][k]>>
                                   \o SubSeq(routes[v], l + 2,
                                             Len(routes[v]))]
       \/ /\ l + 1 < k
          /\ routes' = [routes EXCEPT
                          ![v] = SubSeq(routes[v], 1, l - 1)
                                   \o <<routes[v][k]>>
                                   \o SubSeq(routes[v], l + 2, k - 1)
                                   \o Pair(v, l)
                                   \o SubSeq(routes[v], k + 1,
                                             Len(routes[v]))]
  /\ UNCHANGED unassigned
  /\ Searching

\* Move one task to a different position of its route.
IntraRelocate ==
  /\ \E v \in 1..Len(routes) : \E k \in Steps(v) : \E p \in Steps(v) :
       /\ p # k
       /\ routes' = [routes EXCEPT
                       ![v] = InsertAt(RemoveAt(routes[v], k), p,
                                       routes[v][k])]
  /\ UNCHANGED unassigned
  /\ Searching

\* Move a 2-step segment inside its route, as it is or reversed.
IntraOrOpt ==
  /\ \E v \in 1..Len(routes) : \E k \in Pairs(v) : \E p \in Pairs(v) :
       \E seg \in {Pair(v, k), Reverse(Pair(v, k))} :
         /\ p # k
         /\ routes' = [routes EXCEPT
                         ![v] = InsertSeq(RemoveSeq(routes[v], k, 2), p, seg)]
  /\ UNCHANGED unassigned
  /\ Searching

\* Reverse a part of a route.
IntraTwoOpt ==
  /\ \E v \in 1..Len(routes) : \E k \in Steps(v) : \E l \in Steps(v) :
       /\ k < l
       /\ routes' = [routes EXCEPT
                       ![v] = SubSeq(routes[v], 1, k - 1)
                                \o Reverse(SubSeq(routes[v], k, l))
                                \o SubSeq(routes[v], l + 1, Len(routes[v]))]
  /\ UNCHANGED unassigned
  /\ Searching

\* Move a pickup-delivery pair to another route.
PDShift ==
  /\ \E st \in TwoRoutes : \E kp \in Steps(st[1]) : \E kd \in Steps(st[1]) :
       \E p \in Gaps(st[2]) : \E q \in 2..(Len(routes[st[2]]) + 2) :
         /\ kp < kd
         /\ p < q
         /\ jobs[routes[st[1]][kp]].type = "PICKUP"
         /\ routes[st[1]][kd] = routes[st[1]][kp] + 1
         /\ routes' = [routes EXCEPT
                         ![st[1]] = RemoveAt(RemoveAt(routes[st[1]], kd), kp),
                         ![st[2]] = InsertAt(InsertAt(routes[st[2]], p,
                                                      routes[st[1]][kp]),
                                             q, routes[st[1]][kd])]
  /\ UNCHANGED unassigned
  /\ Searching

\* Swap two full routes between vehicles.
RouteExchange ==
  /\ \E st \in TwoRoutes :
       /\ routes[st[1]] # routes[st[2]]
       /\ routes' = [routes EXCEPT ![st[1]] = routes[st[2]],
                                   ![st[2]] = routes[st[1]]]
  /\ UNCHANGED unassigned
  /\ Searching

\* Swap two tasks across routes, each going to any position of the other
\* route.
SwapStar ==
  /\ \E st \in TwoRoutes : \E k \in Steps(st[1]) : \E l \in Steps(st[2]) :
       \E p \in Steps(st[1]) : \E q \in Steps(st[2]) :
         routes' = [routes EXCEPT
                      ![st[1]] = InsertAt(RemoveAt(routes[st[1]], k), p,
                                          routes[st[2]][l]),
                      ![st[2]] = InsertAt(RemoveAt(routes[st[2]], l), q,
                                          routes[st[1]][k])]
  /\ UNCHANGED unassigned
  /\ Searching

\* Split one route into two by introducing an unused vehicle.
RouteSplit ==
  /\ \E st \in TwoRoutes : \E k \in Pairs(st[1]) :
       /\ routes[st[2]] = <<>>
       /\ routes' = [routes EXCEPT
                       ![st[1]] = SubSeq(routes[st[1]], 1, k),
                       ![st[2]] = SubSeq(routes[st[1]], k + 1,
                                         Len(routes[st[1]]))]
  /\ UNCHANGED unassigned
  /\ Searching

\* Evict a low-priority assigned task in favor of a higher-priority
\* unassigned one.
PriorityReplace ==
  /\ \E v \in 1..Len(routes) : \E k \in Steps(v) : \E u \in unassigned :
       /\ jobs[u].priority > jobs[routes[v][k]].priority
       /\ routes' = [routes EXCEPT ![v] = [routes[v] EXCEPT ![k] = u]]
       /\ unassigned' = (unassigned \ {u}) \union {routes[v][k]}
  /\ Searching

\* Re-solve the sequence of a single route, its membership fixed.
TSPFix ==
  /\ \E v \in 1..Len(routes) : \E order \in Permutations(Steps(v)) :
       /\ \E k \in Steps(v) : order[k] # k
       /\ routes' = [routes EXCEPT
                       ![v] = [k \in Steps(v) |-> routes[v][order[k]]]]
  /\ UNCHANGED unassigned
  /\ Searching

SolveInit ==
  /\ json_input \in SolveDocuments
  /\ pc = "main_checks"
  /\ err = NoError
  /\ i = 1
  /\ has_jobs = FALSE
  /\ has_shipments = FALSE
  /\ amount_size = 0
  /\ vehicles = <<>>
  /\ jobs = <<>>
  /\ durations_matrices = {}
  /\ distances_matrices = {}
  /\ costs_matrices = {}
  /\ NoSolution
  /\ NoScaling

\* parse, then the construction of a solution, then the local search.
SolveNext ==
  \/ MainChecks /\ UNCHANGED <<solution_vars, scaling_vars>>
  \/ FirstVehicle /\ UNCHANGED <<solution_vars, scaling_vars>>
  \/ AddVehicle /\ UNCHANGED <<solution_vars, scaling_vars>>
  \/ AddJob /\ UNCHANGED <<solution_vars, scaling_vars>>
  \/ AddShipment /\ UNCHANGED <<solution_vars, scaling_vars>>
  \/ SelectMatrices /\ UNCHANGED <<solution_vars, scaling_vars>>
  \/ AddMatrices /\ UNCHANGED <<solution_vars, scaling_vars>>
  \/ AddMatrix /\ UNCHANGED <<solution_vars, scaling_vars>>
  \/ Seed
  \/ InitRoutes
  \/ InsertTask
  \/ EndConstruction
  \/ UnassignedExchange
  \/ CrossExchange
  \/ MixedExchange
  \/ TwoOpt
  \/ ReverseTwoOpt
  \/ Relocate
  \/ OrOpt
  \/ IntraExchange
  \/ IntraCrossExchange
  \/ IntraMixedExchange
  \/ IntraRelocate
  \/ IntraOrOpt
  \/ IntraTwoOpt
  \/ PDShift
  \/ RouteExchange
  \/ SwapStar
  \/ RouteSplit
  \/ PriorityReplace
  \/ TSPFix

SolveSpec == SolveInit /\ [][SolveNext]_vars

(***************************************************************************)
(* C15: the tasks of a Solution State.                                     *)
(***************************************************************************)
\* The places of the routes, and the number of places of the solution that
\* hold the task of rank r: in the routes, and 1 more when r is unassigned.
Places == UNION {{<<v, k>> : k \in 1..Len(routes[v])} : v \in 1..Len(routes)}
Occurrences(r) ==
  Cardinality({pl \in Places : routes[pl[1]][pl[2]] = r})
    + (IF r \in unassigned THEN 1 ELSE 0)

\* The tasks parse has ingested are those of the input: one per element of
\* `jobs`, then the pickup and the delivery of each element of `shipments`.
TasksIngested ==
  /\ Len(jobs) = Len(json_jobs) + 2 * Len(json_shipments)
  /\ \A n \in 1..Len(json_jobs) :
       /\ jobs[n].type = "SINGLE"
       /\ jobs[n].id = GetUint64(Get(json_jobs[n], "id"))
  /\ \A n \in 1..Len(json_shipments) :
       /\ jobs[Len(json_jobs) + 2 * n - 1].type = "PICKUP"
       /\ jobs[Len(json_jobs) + 2 * n - 1].id =
            GetUint64(Get(Get(json_shipments[n], "pickup"), "id"))
       /\ jobs[Len(json_jobs) + 2 * n].type = "DELIVERY"
       /\ jobs[Len(json_jobs) + 2 * n].id =
            GetUint64(Get(Get(json_shipments[n], "delivery"), "id"))

====
